---- MODULE Spec2Model ----
(***************************************************************************)
(* A model of the crawl orchestration layer of mantis: the browser session *)
(* pool (BrowserPoolService), the scheduled runner                         *)
(* (CrawlerSchedulerService), the ingestion sink (JobsService) with its    *)
(* relative-time normalisation, the pagination driver                      *)
(* (HimalayasStrategy.crawl) and the crawl orchestrator (CrawlerService).  *)
(*                                                                         *)
(* Node runs the handlers on one thread: a handler runs without            *)
(* interruption from one await of an I/O operation to the next.  Each      *)
(* action below is one such run-to-suspension segment of a handler.        *)
(***************************************************************************)
EXTENDS Integers, Sequences, FiniteSets, TLC

\* ------------------------------------------------------------------------
\* Bounds of the model
\* ------------------------------------------------------------------------
MaxPoolSize == 2        \* BROWSER_POOL_MAX_SIZE as configured for the run
MaxInst == 3            \* browsers launched in one behaviour
MaxSecondary == 1       \* secondary pages open at a time, in one context
MaxCalls == 4           \* pool calls made in one behaviour
MaxTriggers == 3        \* cron and manual triggers in one behaviour
MaxSinkCalls == 2       \* ingestion callbacks run during one strategy's crawl
MaxBatch == 2           \* records in one batch
MaxResultsBound == 25   \* the largest maxResults option
MaxPageSize == 10       \* the most records one page yields
MaxCrawls == 3          \* CrawlerService.crawl calls in one behaviour
MaxNames == 2           \* names in one crawlMultiple call
MaxJobs == 1            \* records a strategy's crawl returns
MaxDigits == 6          \* digits in one postedAt text

\* idleTimeout: the clock is counted in units of it, and runs just past it.
IdleTimeout == 1

MaxTime == IdleTimeout + 1

Keys == {"a", "b", "c"}
PoolTasks == {1, 2}
NoKey == "null"

VARIABLES
    pool,       \* BrowserPoolService.pool: the Map, entries in insertion order
    now,        \* Date.now()
    nextId,     \* identity of the next browser launched
    live,       \* browsers launched and not closed
    ptask,      \* the pool calls in flight, one per task
    calls,      \* the number of pool calls made so far
    ret,        \* the pool call that ended in the last step of the pool, if any
    isRunning,  \* CrawlerSchedulerService.isRunning
    rounds,     \* the handleCron invocations past the isRunning check
    triggers,   \* the number of triggers fired so far
    started,    \* the number of rounds started so far
    lastEnd,    \* how the round that ended last ended
    store,      \* the jobs table: the rows in insertion order
    jcalls,     \* the createManyWithDuplicateHandling calls
    pg,         \* the HimalayasStrategy.crawl call
    browser,    \* BrowserService.browser: 0 for null
    context,    \* BrowserService.context: 0 for null
    browsers,   \* the browsers launched and not closed, with their headless option
    openPages,  \* the pages opened and not closed
    ccalls,     \* the CrawlerService.crawl calls
    multi,      \* the CrawlerService.crawlMultiple call
    crawls,     \* the number of crawl calls made so far
    rt          \* the JobsService.create call

poolVars == <<pool, now, nextId, live, ptask, calls, ret>>

schedVars == <<isRunning, rounds, triggers, started, lastEnd>>

jobVars == <<store, jcalls>>

crawlVars == <<browser, context, browsers, openPages, ccalls, multi, crawls>>

vars == <<pool, now, nextId, live, ptask, calls, ret, isRunning, rounds, triggers, started,
         lastEnd, store, jcalls, pg, browser, context, browsers, openPages, ccalls,
         multi, crawls, rt>>

\* A step of one component leaves the others as they are.
PoolOnly == UNCHANGED <<schedVars, jobVars, pg, crawlVars, rt>>

SchedOnly == UNCHANGED <<poolVars, jobVars, pg, crawlVars, rt>>

JobsOnly == UNCHANGED <<poolVars, schedVars, pg, crawlVars, rt>>

PagerOnly == UNCHANGED <<poolVars, schedVars, jobVars, crawlVars, rt>>

CrawlOnly == UNCHANGED <<poolVars, schedVars, jobVars, pg, rt>>

TimeOnly == UNCHANGED <<poolVars, schedVars, jobVars, pg, crawlVars>>

\* ------------------------------------------------------------------------
\* The session pool: src/src/browser/browser-pool.service.ts
\* ------------------------------------------------------------------------

\* Map operations on the insertion-ordered entry list.
PoolHas(p, k) == \E i \in DOMAIN p : p[i].key = k

PoolIndex(p, k) == CHOOSE i \in DOMAIN p : p[i].key = k

PoolGet(p, k) == p[PoolIndex(p, k)]

PoolSet(p, k, e) ==
    IF PoolHas(p, k) THEN [p EXCEPT ![PoolIndex(p, k)] = e] ELSE Append(p, e)

PoolDelete(p, k) == SelectSeq(p, LAMBDA e : e.key # k)

\* if (oldestKey): the empty string and null are both falsy.
Truthy(k) == k # NoKey /\ k # ""

\* The comparison of cleanupOldest's scan.
OlderThan(e, oldestTime) == e.isIdle /\ e.lastUsedAt < oldestTime

\* cleanupOldest's loop over pool.entries(): oldestTime starts at Date.now().
RECURSIVE OldestScan(_, _, _, _)
OldestScan(p, i, oldestKey, oldestTime) ==
    IF i > Len(p) THEN oldestKey
    ELSE IF OlderThan(p[i], oldestTime)
         THEN OldestScan(p, i + 1, p[i].key, p[i].lastUsedAt)
         ELSE OldestScan(p, i + 1, oldestKey, oldestTime)

\* cleanupIdle's selection.
Expired(e, t) == e.isIdle /\ t - e.lastUsedAt > IdleTimeout

ExpiredKeys(p, t) ==
    LET sel == SelectSeq(p, LAMBDA e : Expired(e, t))
    IN  [i \in DOMAIN sel |-> sel[i].key]

\* A task that runs no call.  A task in a call holds the call's locals: the
\* operation and its key, remove's key and instance (rkey, rid), cleanupIdle's
\* keysToRemove (todo), release's pages (snap); and, for the properties, what
\* an acquire saw when it was called (atCap, hadIdle, minIdle) and the entries
\* its eviction deleted (evicted), and what a cleanupIdle run saw when it was
\* called: the pool (seen), the clock (at), the number of calls made (n) and
\* whether no other call was in flight (solo).
IdleTask ==
    [op |-> "none", pc |-> "idle", key |-> NoKey, rkey |-> NoKey, rid |-> 0,
     todo |-> <<>>, snap |-> 0, atCap |-> FALSE, hadIdle |-> FALSE,
     minIdle |-> 0, evicted |-> <<>>, res |-> "none", seen |-> <<>>, at |-> 0,
     n |-> 0, solo |-> FALSE]

\* A call returns or throws: what is kept of it, for the properties, is the
\* operation, its key, how it ended (res) and the session an acquire returned
\* (rid).
Finish(rec, outcome, p) ==
    [IdleTask EXCEPT !.op = rec.op, !.key = rec.key, !.res = outcome,
                     !.rid = IF outcome \in {"reused", "created"}
                             THEN PoolGet(p, rec.key).id ELSE 0]

\* The call of task t runs up to its next await, or to its end: then the task
\* is free again, and ret holds the call that ended.
Resume(t, rec) ==
    /\ ptask' = [ptask EXCEPT ![t] = IF rec.pc = "idle" THEN IdleTask ELSE rec]
    /\ ret' = IF rec.pc = "idle" THEN rec ELSE IdleTask

\* Calls are anonymous: a new call takes the first free task.
Free(t) ==
    /\ calls < MaxCalls
    /\ calls' = calls + 1
    /\ ptask[t].pc = "idle"
    /\ \A u \in PoolTasks : u < t => ptask[u].pc # "idle"

\* Keys are interchangeable, so they are named in the order of their first
\* use: the i-th call made is for one of the first i keys.
NamedInOrder(k) ==
    LET order == <<"a", "b", "c">>
    IN  \E i \in DOMAIN order : order[i] = k /\ i <= calls + 1

\* remove(key) up to its first await: the entry is read, and, when there is one,
\* the call suspends in context.close().  What follows the return of remove
\* depends on the caller: remove itself / clear, cleanupOldest inside acquire, or
\* cleanupIdle's loop over keysToRemove.
RECURSIVE StartRemove(_, _, _)
AfterRemove(rec, p) ==
    CASE rec.op = "acquire" -> [rec EXCEPT !.pc = "launch", !.rkey = NoKey, !.rid = 0]
      [] rec.op = "sweep" ->
            IF rec.todo = <<>> THEN Finish(rec, "swept", p)
            ELSE StartRemove([rec EXCEPT !.todo = Tail(rec.todo)], Head(rec.todo), p)
      [] OTHER -> Finish(rec, "removed", p)

StartRemove(rec, k, p) ==
    IF PoolHas(p, k)
    THEN [rec EXCEPT !.pc = "ctxClose", !.rkey = k, !.rid = PoolGet(p, k).id]
    ELSE AfterRemove(rec, p)

InitPool ==
    /\ pool = <<>>
    /\ now = 0
    /\ nextId = 1
    /\ live = {}
    /\ ptask = [t \in PoolTasks |-> IdleTask]
    /\ ret = IdleTask
    /\ calls = 0

\* The clock advances.
Tick ==
    /\ now < MaxTime
    /\ now' = now + 1
    /\ ret' = IdleTask
    /\ UNCHANGED <<pool, nextId, live, ptask, calls>>
    /\ PoolOnly

\* What an acquire call sees when it is called: whether the key is new and the
\* pool is exactly full, whether some entry is idle, and the smallest
\* lastUsedAt among the idle entries.
IdleTimes(p) == {p[i].lastUsedAt : i \in {j \in DOMAIN p : p[j].isIdle}}

MinOf(S) == IF S = {} THEN 0 ELSE CHOOSE x \in S : \A y \in S : x <= y

NewAcquire(k) ==
    [IdleTask EXCEPT !.op = "acquire", !.key = k,
                     !.atCap = (~PoolHas(pool, k) /\ Len(pool) = MaxPoolSize),
                     !.hadIdle = (IdleTimes(pool) # {}),
                     !.minIdle = MinOf(IdleTimes(pool))]

\* acquire, lines 40-46: an idle entry under the key is reused.
CanReuse(p, k) == PoolHas(p, k) /\ PoolGet(p, k).isIdle

\* acquire, lines 42-43: the reused instance is marked in use and its
\* lastUsedAt is refreshed.
ReusedNotMarked(e, t) == [e EXCEPT !.lastUsedAt = t]

Reused(e, t) == [e EXCEPT !.isIdle = FALSE, !.lastUsedAt = t]

\* acquire, line 49: the pool size check.
PoolFull(p) == Len(p) >= MaxPoolSize

\* acquire(key) up to its first await: reuse, or the capacity check and
\* cleanupOldest's selection (which suspends in remove's context.close()), or
\* straight on to browserService.launch().
AcquireStart(t, k) ==
    /\ Free(t)
    /\ NamedInOrder(k)
    /\ IF CanReuse(pool, k)
       THEN /\ pool' = PoolSet(pool, k, Reused(PoolGet(pool, k), now))
            /\ Resume(t, Finish(NewAcquire(k), "reused", pool'))
       ELSE /\ pool' = pool
            /\ Resume(t,
                 IF PoolFull(pool) /\ Len(pool) # 0
                    /\ Truthy(OldestScan(pool, 1, NoKey, now))
                 THEN StartRemove(NewAcquire(k), OldestScan(pool, 1, NoKey, now), pool)
                 ELSE [NewAcquire(k) EXCEPT !.pc = "launch"])
    /\ UNCHANGED <<now, nextId, live>>
    /\ PoolOnly

\* browserService.launch() throws: acquire throws, nothing was launched.
AcquireLaunchFails(t) ==
    /\ ptask[t].pc = "launch"
    /\ Resume(t, Finish(ptask[t], "threw", pool))
    /\ UNCHANGED <<pool, now, nextId, live, calls>>
    /\ PoolOnly

\* The browser is launched and newContext() or newPage() throws: acquire
\* throws, and the browser it launched is in no pool entry.
AcquireContextFails(t) ==
    /\ ptask[t].pc = "launch"
    /\ nextId <= MaxInst
    /\ nextId' = nextId + 1
    /\ live' = live \cup {nextId}
    /\ Resume(t, Finish(ptask[t], "threw", pool))
    /\ UNCHANGED <<pool, now, calls>>
    /\ PoolOnly

\* The instance acquire creates, lines 66-73.
NewInstance(k, id, t) ==
    [key |-> k, id |-> id, isIdle |-> FALSE, lastUsedAt |-> t, pages |-> 0]

\* Launch, context and page succeed: pool.set(key, instance), lines 56-77.
AcquireCreates(t) ==
    /\ ptask[t].pc = "launch"
    /\ nextId <= MaxInst
    /\ nextId' = nextId + 1
    /\ live' = live \cup {nextId}
    /\ pool' = PoolSet(pool, ptask[t].key, NewInstance(ptask[t].key, nextId, now))
    /\ Resume(t, Finish(ptask[t], "created", pool'))
    /\ UNCHANGED <<now, calls>>
    /\ PoolOnly

\* remove(key) called directly.
RemoveStart(t, k) ==
    /\ Free(t)
    /\ NamedInOrder(k)
    /\ Resume(t,
                    StartRemove([IdleTask EXCEPT !.op = "remove", !.key = k], k, pool))
    /\ UNCHANGED <<pool, now, nextId, live>>
    /\ PoolOnly

\* remove, line 137: context.close() resolves; the call suspends in
\* browser.close().
ContextClosed(t) ==
    /\ ptask[t].pc = "ctxClose"
    /\ Resume(t, [ptask[t] EXCEPT !.pc = "brClose"])
    /\ UNCHANGED <<pool, now, nextId, live, calls>>
    /\ PoolOnly

\* remove, lines 141-143: a close throws; the error is logged and the entry
\* stays in the pool.
CloseFails(t) ==
    /\ ptask[t].pc \in {"ctxClose", "brClose"}
    /\ Resume(t, AfterRemove(ptask[t], pool))
    /\ UNCHANGED <<pool, now, nextId, live, calls>>
    /\ PoolOnly

\* What pool.delete(key) removes: the entry now under the key, if any.
Deleted(p, k) == IF PoolHas(p, k) THEN <<PoolGet(p, k)>> ELSE <<>>

\* remove, lines 138-140: browser.close() resolves and pool.delete(key) runs;
\* the caller goes on.
BrowserClosed(t) ==
    /\ ptask[t].pc = "brClose"
    /\ live' = live \ {ptask[t].rid}
    /\ pool' = PoolDelete(pool, ptask[t].rkey)
    /\ Resume(t,
         AfterRemove([ptask[t] EXCEPT !.evicted = @ \o Deleted(pool, ptask[t].rkey)],
                     pool'))
    /\ UNCHANGED <<now, nextId, calls>>
    /\ PoolOnly

\* instance.isIdle = true; instance.lastUsedAt = new Date(), on the instance
\* object release read: it shows in the pool only while that object is in it.
MarkIdle(p, id, closed, t) ==
    [i \in DOMAIN p |->
        IF p[i].id = id
        THEN [p[i] EXCEPT !.isIdle = TRUE, !.lastUsedAt = t,
                          !.pages = IF @ > closed THEN @ - closed ELSE 0]
        ELSE p[i]]

\* release, lines 85-88: with no instance under the key a warning is logged
\* and the call returns.
ThrowsWhenNoInstance == "threw"

WhenNoInstance == "noop"

\* release(key) up to its first await: nothing for an absent key; with no
\* secondary page the instance is marked idle at once; otherwise the call
\* suspends in pages[1].close().
ReleaseStart(t, k) ==
    /\ Free(t)
    /\ NamedInOrder(k)
    /\ LET rec == [IdleTask EXCEPT !.op = "release", !.key = k]
       IN  IF ~PoolHas(pool, k)
           THEN /\ pool' = pool
                /\ Resume(t, Finish(rec, WhenNoInstance, pool))
           ELSE IF PoolGet(pool, k).pages = 0
           THEN /\ pool' = MarkIdle(pool, PoolGet(pool, k).id, 0, now)
                /\ Resume(t, Finish(rec, "released", pool'))
           ELSE /\ pool' = pool
                /\ Resume(t,
                      [rec EXCEPT !.pc = "pgClose", !.rid = PoolGet(pool, k).id,
                                  !.snap = PoolGet(pool, k).pages])
    /\ UNCHANGED <<now, nextId, live>>
    /\ PoolOnly

\* release, lines 92-98: the secondary pages read at the call are closed, then
\* the instance is marked idle.
ReleaseDone(t) ==
    /\ ptask[t].pc = "pgClose"
    /\ pool' = MarkIdle(pool, ptask[t].rid, ptask[t].snap, now)
    /\ Resume(t, Finish(ptask[t], "released", pool'))
    /\ UNCHANGED <<now, nextId, live, calls>>
    /\ PoolOnly

\* pages[i].close() throws after j pages were closed: release throws before it
\* marks the instance idle.
ClosePages(p, id, j) ==
    [i \in DOMAIN p |->
        IF p[i].id = id
        THEN [p[i] EXCEPT !.pages = IF @ > j THEN @ - j ELSE 0]
        ELSE p[i]]

ReleaseFails(t) ==
    /\ ptask[t].pc = "pgClose"
    /\ \E j \in 0 .. (ptask[t].snap - 1) :
          /\ pool' = ClosePages(pool, ptask[t].rid, j)
          /\ Resume(t, Finish(ptask[t], "threw", pool'))
    /\ UNCHANGED <<now, nextId, live, calls>>
    /\ PoolOnly

\* newPage(key), lines 119-125: one more page in the session's context.
NewPage(k) ==
    /\ PoolHas(pool, k)
    /\ PoolGet(pool, k).pages < MaxSecondary
    /\ \A i \in DOMAIN pool : pool[i].key # k => pool[i].pages = 0
    /\ pool' = PoolSet(pool, k, [PoolGet(pool, k) EXCEPT !.pages = @ + 1])
    /\ ret' = IdleTask
    /\ UNCHANGED <<now, nextId, live, ptask, calls>>
    /\ PoolOnly

\* cleanupIdle, fired by the interval timer: the expired keys are collected
\* at once, then removed one by one.
SweepStart(t) ==
    /\ Free(t)
    /\ Resume(t,
          AfterRemove([IdleTask EXCEPT
                          !.op = "sweep", !.todo = ExpiredKeys(pool, now),
                          !.seen = pool, !.at = now, !.n = calls',
                          !.solo = (\A u \in PoolTasks : ptask[u].pc = "idle")],
                      pool))
    /\ UNCHANGED <<pool, now, nextId, live>>
    /\ PoolOnly

NextPool ==
    \/ Tick
    \/ \E t \in PoolTasks, k \in Keys : AcquireStart(t, k)
    \/ \E t \in PoolTasks : AcquireLaunchFails(t)
    \/ \E t \in PoolTasks : AcquireContextFails(t)
    \/ \E t \in PoolTasks : AcquireCreates(t)
    \/ \E t \in PoolTasks, k \in Keys : RemoveStart(t, k)
    \/ \E t \in PoolTasks : ContextClosed(t)
    \/ \E t \in PoolTasks : CloseFails(t)
    \/ \E t \in PoolTasks : BrowserClosed(t)
    \/ \E t \in PoolTasks, k \in Keys : ReleaseStart(t, k)
    \/ \E t \in PoolTasks : ReleaseDone(t)
    \/ \E t \in PoolTasks : ReleaseFails(t)
    \/ \E k \in Keys : NewPage(k)
    \/ \E t \in PoolTasks : SweepStart(t)

\* ------------------------------------------------------------------------
\* Properties of the session pool
\* ------------------------------------------------------------------------

\* C1: the number of pool entries never exceeds maxPoolSize.
PoolWithinCapacity == Len(pool) <= MaxPoolSize

\* The step by which the acquire call of task t sets its new entry.
CreatesStep(t) ==
    /\ ptask[t].op = "acquire"
    /\ ptask[t].pc = "launch"
    /\ ptask'[t].pc = "idle"
    /\ pool' # pool

\* C9: an acquire called for a key with no entry, with the pool exactly full and
\* some entry idle, has evicted exactly one entry when it creates its session;
\* that entry was idle and had the smallest lastUsedAt of the idle entries, and
\* the pool size is maxPoolSize again after the creation.
EvictsOldestIdleAtCapacity ==
    [][\A t \in PoolTasks :
          (CreatesStep(t) /\ ptask[t].atCap /\ ptask[t].hadIdle)
          => /\ Len(ptask[t].evicted) = 1
             /\ ptask[t].evicted[1].isIdle
             /\ ptask[t].evicted[1].lastUsedAt = ptask[t].minIdle
             /\ Len(pool') = MaxPoolSize]_vars

\* C10: an acquire called for a key with no entry, with the pool exactly full
\* and no entry idle, launches no browser and leaves the pool as it is.
AcquireFailsAtCapacityNoIdle ==
    [][\A t \in PoolTasks :
          (/\ ptask[t].op = "acquire"
           /\ ptask[t].atCap
           /\ ~ptask[t].hadIdle
           /\ ptask'[t] # ptask[t])
          => (pool' = pool /\ nextId' = nextId)]_vars

\* The entry that holds the browser with the given identity is marked in use.
InUse(p, id) == \E i \in DOMAIN p : p[i].id = id /\ ~p[i].isIdle

\* A close made for an eviction: remove, called by cleanupOldest (inside
\* acquire) or by cleanupIdle, has its context.close() or browser.close()
\* resolve.
EvictionCloses(t) ==
    /\ ptask[t].op \in {"acquire", "sweep"}
    /\ \/ ptask[t].pc = "ctxClose" /\ ptask'[t].pc = "brClose"
       \/ ptask[t].pc = "brClose" /\ live' # live

\* C11: capacity eviction and the idle sweep close no session that is marked
\* in use at the time of the close.
EvictionTargetsIdleOnly ==
    [][\A t \in PoolTasks :
          EvictionCloses(t) => ~InUse(pool, ptask[t].rid)]_vars

\* C12: at most one live session per key: when acquire sets a new session
\* under a key, no live session is in the pool under that key.
OneLiveSessionPerKey ==
    [][\A t \in PoolTasks :
          CreatesStep(t)
          => ~(PoolHas(pool, ptask[t].key) /\ PoolGet(pool, ptask[t].key).id \in live)]_vars

\* The step in which a new call takes task t.
Starts(t) ==
    /\ calls' = calls + 1
    /\ ptask[t].pc = "idle"
    /\ \A u \in PoolTasks : u < t => ptask[u].pc # "idle"

\* The step in which a call of the operation returns or throws in task t: at
\* once, or after its awaits.
Ends(t, op) ==
    /\ ptask'[t].pc = "idle"
    /\ ret'.op = op
    /\ \/ Starts(t)
       \/ ptask[t].pc # "idle" /\ ptask[t].op = op

\* The call of task t after a step of it: suspended in the task, or ended.
After(t) == IF ptask'[t].pc = "idle" THEN ret' ELSE ptask'[t]

\* C22: release(key) for a key with no entry returns at once without throwing
\* and leaves the pool (keys, idle flags, timestamps, pages) and the launched
\* browsers as they are.
ReleaseOfAbsentKeyIsNoOp ==
    [][\A t \in PoolTasks :
          (Starts(t) /\ After(t).op = "release" /\ ~PoolHas(pool, After(t).key))
          => /\ After(t).pc = "idle"
             /\ After(t).res = "noop"
             /\ pool' = pool
             /\ live' = live
             /\ nextId' = nextId]_vars

\* A release of a key with no entry has returned while the pool was full.
ReleasedAbsentKey ==
    /\ ret.op = "release"
    /\ ret.res = "noop"
    /\ ~PoolHas(pool, ret.key)
    /\ Len(pool) = MaxPoolSize

\* C23: when a release call on an existing session ends and the session (the
\* instance under the key when release was called) is still in the pool, the
\* session is under the same key, marked idle, its lastUsedAt is the time of
\* the return, and no secondary page of its context is open.
ReleaseMarksIdle ==
    [][\A t \in PoolTasks :
          LET id == IF Starts(t) THEN PoolGet(pool, After(t).key).id
                    ELSE ptask[t].rid
              has(p) == \E i \in DOMAIN p : p[i].id = id
              session(p) == p[CHOOSE i \in DOMAIN p : p[i].id = id]
          IN  (/\ Ends(t, "release")
               /\ Starts(t) => PoolHas(pool, After(t).key)
               /\ has(pool))
              => /\ has(pool')
                 /\ session(pool').key = After(t).key
                 /\ session(pool').isIdle
                 /\ session(pool').lastUsedAt = now
                 /\ session(pool').pages = 0]_vars

\* C24: acquire(key) with an idle session under the key returns that session
\* at once, marked in use with lastUsedAt refreshed; nothing else in the pool
\* changes, no browser is launched or closed, whatever the pool size.  And
\* every session an acquire returns, reused or created, is in the pool under
\* the key and marked in use when the call returns.
ReuseOfIdleSession ==
    /\ [][\A t \in PoolTasks :
             (/\ Starts(t)
              /\ After(t).op = "acquire"
              /\ PoolHas(pool, After(t).key)
              /\ PoolGet(pool, After(t).key).isIdle)
             => /\ After(t).pc = "idle"
                /\ After(t).res = "reused"
                /\ After(t).rid = PoolGet(pool, After(t).key).id
                /\ pool' = [pool EXCEPT ![PoolIndex(pool, After(t).key)] =
                                [@ EXCEPT !.isIdle = FALSE, !.lastUsedAt = now]]
                /\ nextId' = nextId
                /\ live' = live]_vars
    /\ [][\A t \in PoolTasks :
             (Ends(t, "acquire") /\ After(t).res \in {"reused", "created"})
             => /\ PoolHas(pool', After(t).key)
                /\ PoolGet(pool', After(t).key).id = After(t).rid
                /\ ~PoolGet(pool', After(t).key).isIdle
                /\ PoolGet(pool', After(t).key).lastUsedAt = now]_vars

\* An acquire has reused the session under its key in a full pool whose
\* entries are now all in use, after the clock had advanced.
ReusedAtCapacity ==
    /\ ret.op = "acquire"
    /\ ret.res = "reused"
    /\ Len(pool) = MaxPoolSize
    /\ PoolHas(pool, ret.key)
    /\ PoolGet(pool, ret.key).id = ret.rid
    /\ PoolGet(pool, ret.key).lastUsedAt = now
    /\ now > 0
    /\ \A i \in DOMAIN pool : ~pool[i].isIdle

\* C25: when a remove call for a key that had an entry returns, the pool has
\* no entry under the key and the call has not thrown.
RemoveDeletesEntry ==
    [][\A t \in PoolTasks :
          (/\ ptask[t].op = "remove"
           /\ ptask[t].pc \in {"ctxClose", "brClose"}
           /\ After(t).pc = "idle")
          => /\ ~PoolHas(pool', ptask[t].rkey)
             /\ After(t).res # "threw"]_vars

\* C26: a cleanupIdle run during which no other pool call was in flight
\* leaves, when it ends, exactly the entries that were in use or within the
\* timeout when it was called, with their key, session, idle flag and
\* lastUsedAt unchanged and in their order.
SweepRemovesExactlyExpired ==
    [][\A t \in PoolTasks :
          LET left(p, at) == SelectSeq(p, LAMBDA e : ~Expired(e, at))
              core(p) == [i \in DOMAIN p |->
                            [key |-> p[i].key, id |-> p[i].id,
                             isIdle |-> p[i].isIdle, lastUsedAt |-> p[i].lastUsedAt]]
          IN  /\ (/\ Starts(t)
                   /\ Ends(t, "sweep")
                   /\ \A u \in PoolTasks : ptask[u].pc = "idle")
                  => core(pool') = core(left(pool, now))
              /\ (/\ ~Starts(t)
                   /\ Ends(t, "sweep")
                   /\ ptask[t].solo
                   /\ ptask[t].n = calls)
                  => core(pool') = core(left(ptask[t].seen, ptask[t].at))]_vars

\* C35: every browser that acquire launched and that is not closed is the
\* browser of some pool entry.
PoolTracksLiveBrowsers ==
    \A id \in live : \E i \in DOMAIN pool : pool[i].id = id

\* C36: the session an acquire call returns, reused or created, is not one
\* that a remove (called directly, by the eviction or by the sweep) has begun
\* to close.
AcquireReturnsOpenSession ==
    [][\A t \in PoolTasks :
          (Ends(t, "acquire") /\ ret'.res \in {"reused", "created"})
          => ~\E u \in PoolTasks :
                 /\ ptask[u].pc \in {"ctxClose", "brClose"}
                 /\ ptask[u].rid = ret'.rid]_vars

\* C37: no two removals are closing the same session: two calls suspended
\* in context.close() or browser.close() hold different sessions.
SessionClosedAtMostOnce ==
    \A t, u \in PoolTasks :
        (/\ t # u
         /\ ptask[t].pc \in {"ctxClose", "brClose"}
         /\ ptask[u].pc \in {"ctxClose", "brClose"})
        => ptask[t].rid # ptask[u].rid

\* ------------------------------------------------------------------------
\* The scheduled runner: CrawlerSchedulerService, src/unnamed/part_002
\* ------------------------------------------------------------------------

\* CRAWL_STRATEGIES, split, trimmed and filtered (lines 46-50).
Strategies == <<"remoteok", "himalayas">>

RoundSlots == {1, 2}

\* An invocation of handleCron that is not past the check, and the locals of
\* one that is: the strategy it is crawling (i), the crawl calls it has made
\* (attempted), totalSaved, totalSkipped and the callbacks run in this crawl;
\* and, for the properties, the records of returned lists it has let go.
NoRound ==
    [pc |-> "idle", kind |-> "none", i |-> 0, attempted |-> <<>>, failed |-> 0,
     totalSaved |-> 0, totalSkipped |-> 0, sinkCalls |-> 0, discarded |-> 0]

InRound(s) == rounds[s].pc # "idle"

\* handleCron, line 34: the check an invocation must pass.
PassesCheckAlways == TRUE

PassesCheck == ~isRunning

\* handleCron, line 39: the flag an invocation that passed the check sets.
FlagNeverSet == FALSE

FlagAtStart == TRUE

\* handleCron, lines 128-130: the flag once the round has ended; the finally
\* block runs whether the try block threw or not.
FlagAfterRoundNoFinally(threw) == threw

FlagAfterRound(threw) == FALSE

\* How a round ended: by a throw caught at the outer boundary, with some
\* strategy's crawl having failed, or with every crawl resolved.
Ending(r, threw) ==
    IF threw THEN "threw" ELSE IF r.failed > 0 THEN "strategyFailed" ELSE "completed"

InitSched ==
    /\ isRunning = FALSE
    /\ rounds = [s \in RoundSlots |-> NoRound]
    /\ triggers = 0
    /\ started = 0
    /\ lastEnd = "none"

\* The round's for loop, lines 89-110, from the top of an iteration to its
\* await of crawlerService.crawl: with no strategy left the round logs its
\* totals and ends.
EnterLoopUnlessFailed(r) ==
    IF r.i < Len(Strategies) /\ r.failed = 0
    THEN [r EXCEPT !.pc = "crawl", !.i = @ + 1, !.sinkCalls = 0,
                   !.attempted = Append(@, Strategies[r.i + 1])]
    ELSE NoRound

EnterLoop(r) ==
    IF r.i < Len(Strategies)
    THEN [r EXCEPT !.pc = "crawl", !.i = @ + 1, !.sinkCalls = 0,
                   !.attempted = Append(@, Strategies[r.i + 1])]
    ELSE NoRound

\* handleCron (kind = "cron") or handleManually, which awaits handleCron: a
\* trigger that finds the flag set logs a warning and returns; one that passes
\* sets the flag and runs to the first crawl call.
Trigger(kind) ==
    /\ triggers < MaxTriggers
    /\ triggers' = triggers + 1
    /\ IF PassesCheck
       THEN \E s \in RoundSlots :
              /\ ~InRound(s)
              /\ \A u \in RoundSlots : u < s => InRound(u)
              /\ rounds' = [rounds EXCEPT ![s] = EnterLoop([NoRound EXCEPT !.kind = kind])]
              /\ isRunning' = IF InRound(s)' THEN FlagAtStart ELSE FlagAfterRound(FALSE)
              /\ lastEnd' = IF InRound(s)' THEN lastEnd ELSE "completed"
              /\ started' = started + 1
       ELSE UNCHANGED <<isRunning, rounds, started, lastEnd>>
    /\ SchedOnly

\* The strategies that hand their page batches to options.onPageCrawled:
\* HimalayasStrategy.crawl does (himalayas-strategy.ts, lines 84-86);
\* RemoteOkStrategy.crawl and WeWorkRemotelyStrategy.crawl never read the
\* option and return the list they extracted.
UsesCallback(name) == name = "himalayas"

\* The per-strategy storage callback, lines 62-85, called by the strategy with
\* a non-empty page batch: the sink reports saved and skipped records.
CallbackBatch(s) ==
    /\ rounds[s].pc = "crawl"
    /\ UsesCallback(Strategies[rounds[s].i])
    /\ rounds[s].sinkCalls < MaxSinkCalls
    /\ \E n \in 1 .. MaxBatch, saved \in 0 .. MaxBatch :
          /\ saved <= n
          /\ rounds' = [rounds EXCEPT ![s].totalSaved = @ + saved,
                                      ![s].totalSkipped = @ + (n - saved),
                                      ![s].sinkCalls = @ + 1]
    /\ UNCHANGED <<isRunning, triggers, started, lastEnd>>
    /\ SchedOnly

\* The end of an iteration: the flag is cleared when the round is over.
NextStrategy(s, r) ==
    /\ rounds' = [rounds EXCEPT ![s] = EnterLoop(r)]
    /\ isRunning' = IF InRound(s)' THEN isRunning ELSE FlagAfterRound(FALSE)
    /\ lastEnd' = IF InRound(s)' THEN lastEnd ELSE Ending(r, FALSE)
    /\ UNCHANGED <<triggers, started>>
    /\ SchedOnly

\* The round's use of the list crawlerService.crawl resolves with, line 104:
\* the await's value is bound to nothing, so its n records are let go.
AfterCrawl(r, n) == [r EXCEPT !.discarded = @ + n]

\* crawlerService.crawl resolves, line 104, with the n records the strategy
\* returned: a strategy that hands its batches to the callback returns an
\* empty list (himalayas-strategy.ts, line 132).
CrawlReturns(s) ==
    /\ rounds[s].pc = "crawl"
    /\ \E n \in 0 .. MaxJobs :
          /\ UsesCallback(Strategies[rounds[s].i]) => n = 0
          /\ NextStrategy(s, AfterCrawl(rounds[s], n))

\* crawlerService.crawl rejects: caught and logged, lines 105-109.
CrawlThrows(s) ==
    /\ rounds[s].pc = "crawl"
    /\ NextStrategy(s, [rounds[s] EXCEPT !.failed = @ + 1])

\* Any other step of the try block throws: the outer catch, lines 123-127,
\* then the finally block.
RoundThrows(s) ==
    /\ rounds[s].pc = "crawl"
    /\ rounds' = [rounds EXCEPT ![s] = NoRound]
    /\ isRunning' = FlagAfterRound(TRUE)
    /\ lastEnd' = Ending(rounds[s], TRUE)
    /\ UNCHANGED <<triggers, started>>
    /\ SchedOnly

RoundStep ==
    \/ \E s \in RoundSlots : CrawlReturns(s)
    \/ \E s \in RoundSlots : CrawlThrows(s)
    \/ \E s \in RoundSlots : RoundThrows(s)

NextSched ==
    \/ Trigger("cron")
    \/ Trigger("manual")
    \/ \E s \in RoundSlots : CallbackBatch(s)
    \/ \E s \in RoundSlots : CrawlReturns(s)
    \/ \E s \in RoundSlots : CrawlThrows(s)
    \/ \E s \in RoundSlots : RoundThrows(s)

\* ------------------------------------------------------------------------
\* The ingestion sink: JobsService, src/src/jobs/jobs.service.ts
\* ------------------------------------------------------------------------

\* The records submitted: url, source and one more field (the title).
Records ==
    { [url |-> "u1", source |-> "s1", title |-> "t1"],
      [url |-> "u1", source |-> "s1", title |-> "t2"],
      [url |-> "u1", source |-> "s2", title |-> "t1"],
      [url |-> "u2", source |-> "s1", title |-> "t1"] }

Batches == UNION {[1 .. n -> Records] : n \in 0 .. MaxBatch}

JobCalls == {1, 2}

\* @Index(['url', 'source'], { unique: true }): two rows are the same posting.
SameKey(a, b) == a.url = b.url /\ a.source = b.source

\* jobRepository.findOne({ where: { url, source } }), lines 139-144.
FoundByUrlOnly(st, r) == \E i \in DOMAIN st : st[i].url = r.url

Found(st, r) == \E i \in DOMAIN st : SameKey(st[i], r)

\* The unique index, as the database enforces it on insert.
IndexRejects(st, r) == \E i \in DOMAIN st : SameKey(st[i], r)

\* The messages of the errors the store raises: the unique violation of the
\* configured driver (postgres), and any other failure.
UniqueViolationMessage == "duplicate key value violates unique constraint"

OtherFailureMessage == "connection terminated unexpectedly"

\* The catch block's test, lines 156-161: error.message.includes(...) of
\* 'duplicate key', 'UNIQUE constraint' or 'unique constraint'.
IsDuplicateErrorSqliteOnly(msg) == msg \in {"UNIQUE constraint failed: jobs.url, jobs.source"}

IsDuplicateError(msg) ==
    msg \in {"duplicate key value violates unique constraint",
             "UNIQUE constraint failed: jobs.url, jobs.source"}

\* A call not made yet.  A call holds jobsData (batch), the index of the record
\* in hand (idx), saved, skipped, what became of each record handled so far
\* (outcomes) and the message of the error it threw (err).
NoCall ==
    [pc |-> "idle", batch |-> <<>>, idx |-> 0, saved |-> <<>>, skipped |-> 0,
     outcomes |-> <<>>, err |-> ""]

InitJobs ==
    /\ store = <<>>
    /\ jcalls = [c \in JobCalls |-> NoCall]

\* The for loop goes on to the next record, or the call returns.
NextRecord(rec) ==
    IF rec.idx < Len(rec.batch)
    THEN [rec EXCEPT !.pc = "find", !.idx = @ + 1]
    ELSE [rec EXCEPT !.pc = "returned"]

\* createManyWithDuplicateHandling(jobsData) up to its first await.
JobsStart(c, batch) ==
    /\ jcalls[c].pc = "idle"
    /\ \A d \in JobCalls : d < c => jcalls[d].pc # "idle"
    /\ jcalls' = [jcalls EXCEPT ![c] = NextRecord([NoCall EXCEPT !.batch = batch])]
    /\ UNCHANGED store
    /\ JobsOnly

\* A lookup that overwrites the job it finds with the submitted record (an
\* upsert) before counting the skip.
FindResolvesAndUpdates(c) ==
    /\ jcalls[c].pc = "find"
    /\ LET rec == jcalls[c]
           r == rec.batch[rec.idx]
       IN  /\ jcalls' = [jcalls EXCEPT ![c] =
                  IF Found(store, r)
                  THEN NextRecord([rec EXCEPT !.skipped = @ + 1,
                                              !.outcomes = Append(@, "found")])
                  ELSE [rec EXCEPT !.pc = "save"]]
           /\ store' = [i \in DOMAIN store |->
                           IF SameKey(store[i], r) THEN r ELSE store[i]]
    /\ JobsOnly

\* findOne resolves, lines 139-152: an existing job is a skip; otherwise
\* create() is called and suspends in jobRepository.save.
FindResolves(c) ==
    /\ jcalls[c].pc = "find"
    /\ LET rec == jcalls[c]
           r == rec.batch[rec.idx]
       IN  jcalls' = [jcalls EXCEPT ![c] =
              IF Found(store, r)
              THEN NextRecord([rec EXCEPT !.skipped = @ + 1,
                                          !.outcomes = Append(@, "found")])
              ELSE [rec EXCEPT !.pc = "save"]]
    /\ UNCHANGED store
    /\ JobsOnly

\* A catch block that drops every error it does not count as a duplicate and
\* goes on with the loop.
CaughtAndWentOn(rec, msg) ==
    IF IsDuplicateError(msg)
    THEN NextRecord([rec EXCEPT !.skipped = @ + 1,
                                !.outcomes = Append(@, "conflict")])
    ELSE NextRecord(rec)

\* A catch block that swallows the uniqueness violation without counting the
\* record.
CaughtNotCounted(rec, msg) ==
    IF IsDuplicateError(msg)
    THEN NextRecord(rec)
    ELSE [rec EXCEPT !.pc = "threw", !.err = msg]

\* The catch block, lines 154-167, for an error with the given message.
Caught(rec, msg) ==
    IF IsDuplicateError(msg)
    THEN NextRecord([rec EXCEPT !.skipped = @ + 1,
                                !.outcomes = Append(@, "conflict")])
    ELSE [rec EXCEPT !.pc = "threw", !.err = msg]

\* save resolves, line 153: the row is inserted and pushed to saved.
SaveResolves(c) ==
    /\ jcalls[c].pc = "save"
    /\ LET rec == jcalls[c]
           r == rec.batch[rec.idx]
       IN  /\ ~IndexRejects(store, r)
           /\ store' = Append(store, r)
           /\ jcalls' = [jcalls EXCEPT ![c] =
                  NextRecord([rec EXCEPT !.saved = Append(@, r),
                                         !.outcomes = Append(@, "saved")])]
    /\ JobsOnly

\* save rejects with the unique violation: another insert came first.
SaveConflicts(c) ==
    /\ jcalls[c].pc = "save"
    /\ IndexRejects(store, jcalls[c].batch[jcalls[c].idx])
    /\ jcalls' = [jcalls EXCEPT ![c] = Caught(jcalls[c], UniqueViolationMessage)]
    /\ UNCHANGED store
    /\ JobsOnly

\* findOne or save rejects with any other failure.
StoreFails(c) ==
    /\ jcalls[c].pc \in {"find", "save"}
    /\ jcalls' = [jcalls EXCEPT ![c] = Caught(jcalls[c], OtherFailureMessage)]
    /\ UNCHANGED store
    /\ JobsOnly

NextJobs ==
    \/ \E c \in JobCalls, b \in Batches : JobsStart(c, b)
    \/ \E c \in JobCalls : FindResolves(c)
    \/ \E c \in JobCalls : SaveResolves(c)
    \/ \E c \in JobCalls : SaveConflicts(c)
    \/ \E c \in JobCalls : StoreFails(c)

\* ------------------------------------------------------------------------
\* Relative-time normalisation: JobsService.parseRelativeTime and create,
\* src/src/jobs/jobs.service.ts and src/unnamed/part_006
\* ------------------------------------------------------------------------

\* The two versions of parseRelativeTime in the repository: the switch of
\* jobs.service.ts and the object lookup of part_006.
Versions == {"switch", "lookup"}

\* Strings are sequences of characters.
DigitChars == <<"0", "1", "2", "3", "4", "5", "6", "7", "8", "9">>

LowerChars ==
    <<"a", "b", "c", "d", "e", "f", "g", "h", "i", "j", "k", "l", "m",
      "n", "o", "p", "q", "r", "s", "t", "u", "v", "w", "x", "y", "z">>

UpperChars ==
    <<"A", "B", "C", "D", "E", "F", "G", "H", "I", "J", "K", "L", "M",
      "N", "O", "P", "Q", "R", "S", "T", "U", "V", "W", "X", "Y", "Z">>

IndexIn(chars, c) == CHOOSE i \in DOMAIN chars : chars[i] = c

IsIn(chars, c) == \E i \in DOMAIN chars : chars[i] = c

\* String.prototype.trim: white space is stripped at both ends.
RECURSIVE Trim(_)
Trim(s) ==
    IF s = <<>> THEN s
    ELSE IF Head(s) = " " THEN Trim(Tail(s))
    ELSE IF s[Len(s)] = " " THEN Trim(SubSeq(s, 1, Len(s) - 1))
    ELSE s

\* String.prototype.toLowerCase.
ToLowerCase(s) ==
    [i \in DOMAIN s |->
        IF IsIn(UpperChars, s[i]) THEN LowerChars[IndexIn(UpperChars, s[i])] ELSE s[i]]

\* trimmed.match(/^(\d+)([a-z]+)$/): the longest run of digits at the start,
\* then lower-case letters to the end, at least one of each.
Match(s) ==
    LET k == Cardinality({i \in DOMAIN s : \A j \in 1 .. i : IsIn(DigitChars, s[j])})
    IN  IF /\ k >= 1
           /\ k < Len(s)
           /\ \A i \in (k + 1) .. Len(s) : IsIn(LowerChars, s[i])
        THEN [ok |-> TRUE, value |-> SubSeq(s, 1, k), unit |-> SubSeq(s, k + 1, Len(s))]
        ELSE [ok |-> FALSE, value |-> <<>>, unit |-> <<>>]

\* parseInt(value, 10) of a string of digits.
RECURSIVE ParseInt(_)
ParseInt(ds) ==
    IF ds = <<>> THEN 0
    ELSE ParseInt(SubSeq(ds, 1, Len(ds) - 1)) * 10 + (IndexIn(DigitChars, ds[Len(ds)]) - 1)

\* Instants are counted in days and hours since the epoch; what is below the
\* hour is carried along unchanged.  A Date holds a time value of at most
\* 8.64e15 ms, which is 10^8 days, on either side of the epoch; any other
\* time value makes an Invalid Date.
DateRange == 100 * 1000 * 1000

Undefined == [kind |-> "undefined"]

Date(days, hours) == [kind |-> "date", days |-> days, hours |-> hours]

\* new Date(now.getTime() - value * <the unit in ms>), the unit given in days
\* and hours.
NewDate(at, value, unit) ==
    LET hrs == value * unit.hours
        borrow == IF at.hours < (hrs % 24) THEN 1 ELSE 0
        days == at.days - (value * unit.days) - (hrs \div 24) - borrow
    IN  IF unit.days > 0 /\ value > (2 * DateRange) \div unit.days
        THEN [kind |-> "invalidDate"]
        ELSE IF days < 0 - DateRange THEN [kind |-> "invalidDate"]
        ELSE Date(days, at.hours - (hrs % 24) + (24 * borrow))

\* The five units and their factors, jobs.service.ts lines 46-58.
UnitFactors ==
    (<<"h">> :> [days |-> 0, hours |-> 1]) @@
    (<<"d">> :> [days |-> 1, hours |-> 0]) @@
    (<<"w">> :> [days |-> 7, hours |-> 0]) @@
    (<<"m", "o">> :> [days |-> 30, hours |-> 0]) @@
    (<<"y">> :> [days |-> 365, hours |-> 0])

\* jobs.service.ts, lines 45-65: the switch and its default.
SwitchUnit(unit, at, value) ==
    IF unit \in DOMAIN UnitFactors THEN NewDate(at, value, UnitFactors[unit]) ELSE Undefined

\* part_006, lines 46-53: units[unit] || undefined.  The lookup finds the
\* object's own five keys and what the object inherits; of the inherited
\* names only 'constructor' is made of lower-case letters, and its value is
\* the function Object.
LookupUnit(unit, at, value) ==
    IF unit \in DOMAIN UnitFactors THEN NewDate(at, value, UnitFactors[unit])
    ELSE IF unit = <<"c", "o", "n", "s", "t", "r", "u", "c", "t", "o", "r">>
    THEN [kind |-> "function"]
    ELSE Undefined

JustNow == {<<"n", "o", "w">>, <<"j", "u", "s", "t", " ", "n", "o", "w">>}

\* parseRelativeTime, called at the instant at.
ParseRelativeTime(v, relativeTime, at) ==
    IF ~relativeTime.given \/ relativeTime.text = <<>> \/ Trim(relativeTime.text) = <<>>
    THEN Undefined
    ELSE LET trimmed == ToLowerCase(Trim(relativeTime.text))
             m == Match(trimmed)
         IN  IF trimmed \in JustNow THEN Date(at.days, at.hours)
             ELSE IF ~m.ok THEN Undefined
             ELSE IF v = "switch" THEN SwitchUnit(m.unit, at, ParseInt(m.value))
             ELSE LookupUnit(m.unit, at, ParseInt(m.value))

\* The postedAt texts tried: an absent value, and white space or a sign, some
\* digits, a word and white space.
Texts ==
    LET RECURSIVE DigitStrings(_)
        DigitStrings(n) ==
            IF n = 0 THEN {<<>>}
            ELSE DigitStrings(n - 1) \cup
                 {Append(ds, c) : ds \in DigitStrings(n - 1), c \in {"0", "3"}}
        Words ==
            {<<>>, <<"h">>, <<"d">>, <<"w">>, <<"m", "o">>, <<"y">>, <<"D">>,
             <<"M", "o">>, <<"m">>, <<"x">>, <<" ", "d">>, <<"d", "7">>,
             <<"n", "o", "w">>, <<"N", "o", "W">>,
             <<"j", "u", "s", "t", " ", "n", "o", "w">>,
             <<"J", "u", "s", "t", " ", "N", "O", "W">>,
             <<"j", "u", "s", "t", "n", "o", "w">>,
             <<"b", "a", "n", "a", "n", "a">>,
             <<"c", "o", "n", "s", "t", "r", "u", "c", "t", "o", "r">>}
    IN  {[given |-> FALSE, text |-> <<>>]} \cup
        {[given |-> TRUE, text |-> b \o ds \o w \o a] :
            b \in {<<>>, <<" ">>, <<"-">>}, ds \in DigitStrings(MaxDigits),
            w \in Words, a \in {<<>>, <<" ">>}}

\* No create call, and the locals of one: the version of the parser, the
\* record's postedAt text, the instant of the call, what parseRelativeTime
\* gave, and the postedAt of the row once it is saved.
NoCreate ==
    [pc |-> "idle", v |-> "none", postedAt |-> [given |-> FALSE, text |-> <<>>],
     at |-> Date(0, 0), parsed |-> Undefined, row |-> Undefined]

InitTime == rt = NoCreate

\* create, lines 68-91: the record's postedAt goes through parseRelativeTime
\* and the entity is handed to jobRepository.save.
Create ==
    /\ rt.pc = "idle"
    /\ \E v \in Versions, postedAt \in Texts,
          at \in {Date(20000, 0), Date(20000, 13)} :
          rt' = [NoCreate EXCEPT !.pc = "saving", !.v = v, !.postedAt = postedAt,
                                 !.at = at,
                                 !.parsed = ParseRelativeTime(v, postedAt, at)]
    /\ TimeOnly

\* save resolves: the row holds what parseRelativeTime gave.
CreateSaved ==
    /\ rt.pc = "saving"
    /\ rt' = [rt EXCEPT !.pc = "saved", !.row = rt.parsed]
    /\ TimeOnly

\* save rejects: create throws.
CreateSaveFails ==
    /\ rt.pc = "saving"
    /\ rt' = [rt EXCEPT !.pc = "threw"]
    /\ TimeOnly

NextTime ==
    \/ Create
    \/ CreateSaved
    \/ CreateSaveFails

\* ------------------------------------------------------------------------
\* The pagination driver: HimalayasStrategy.crawl,
\* src/src/crawler/strategies/himalayas-strategy.ts
\* ------------------------------------------------------------------------

\* A crawl not called yet.  A call holds the options (maxResults, whether
\* onPageCrawled is given), totalCrawled, currentPage and the batch in hand
\* (pageJobs, by its length); and, for the properties, the extractions and
\* callback calls made, the records handed to the callback, the page sizes
\* seen (uni: 0 none yet, k when every page had k records, -1 otherwise),
\* whether a callback call or an advance failed, and the length of the list
\* returned.
NoCrawl ==
    [pc |-> "idle", maxResults |-> 0, hasCallback |-> FALSE, totalCrawled |-> 0,
     currentPage |-> 1, pageJobs |-> 0, extractions |-> 0, cbCalls |-> 0,
     handed |-> 0, uni |-> 0, cbFailed |-> FALSE, advFailed |-> FALSE,
     retLen |-> 0]

InitPager == pg = NoCrawl

\* while (totalCrawled < maxResults), line 70.
LoopGuard(total, max) == total < max

\* if (totalCrawled >= maxResults) break, line 108.
ReachedTarget(total, max) == total >= max

\* totalCrawled += pageJobs.length, line 105, reached whether the callback
\* resolved or threw.
CountOnlyStored(total, k, stored) == IF stored THEN total + k ELSE total

CountAfterBatch(total, k, stored) == total + k

\* if (pageJobs.length === 0) break, line 78.
NeverEmpty(k) == FALSE

EmptyPage(k) == k = 0

\* The top of the loop: another extraction, or the return of line 132.
LoopTop(r) ==
    IF LoopGuard(r.totalCrawled, r.maxResults)
    THEN [r EXCEPT !.pc = "extract"]
    ELSE [r EXCEPT !.pc = "returned", !.retLen = 0]

\* Lines 104-117: the count, the target check, then pageToLoadMore is awaited.
AfterBatchOrAbort(r, stored) ==
    LET total == CountAfterBatch(r.totalCrawled, r.pageJobs, stored)
    IN  IF ~stored THEN [r EXCEPT !.pc = "threw"]
        ELSE IF ReachedTarget(total, r.maxResults)
        THEN [r EXCEPT !.totalCrawled = total, !.pc = "returned", !.retLen = 0]
        ELSE [r EXCEPT !.totalCrawled = total, !.pc = "advance"]

AfterBatch(r, stored) ==
    LET total == CountAfterBatch(r.totalCrawled, r.pageJobs, stored)
    IN  IF ReachedTarget(total, r.maxResults)
        THEN [r EXCEPT !.totalCrawled = total, !.pc = "returned", !.retLen = 0]
        ELSE [r EXCEPT !.totalCrawled = total, !.pc = "advance"]

\* crawl(page, options) up to its first await, page.goto.
PagerStart(max, cb) ==
    /\ pg.pc = "idle"
    /\ pg' = [NoCrawl EXCEPT !.pc = "loading", !.maxResults = max, !.hasCallback = cb]
    /\ PagerOnly

\* goto and waitForSelector resolve, lines 49-63.
LoadDone ==
    /\ pg.pc = "loading"
    /\ pg' = LoopTop(pg)
    /\ PagerOnly

\* goto or waitForSelector rejects: logged and thrown again, lines 133-138.
LoadFails ==
    /\ pg.pc = "loading"
    /\ pg' = [pg EXCEPT !.pc = "threw"]
    /\ PagerOnly

\* extractJobsFromCurrentPage resolves with k records (none when it failed
\* inside, line 223): lines 76-102.  An empty page ends the loop; otherwise
\* the callback, if any, is awaited.
Extracted(k) ==
    /\ pg.pc = "extract"
    /\ LET r == [pg EXCEPT !.extractions = @ + 1, !.pageJobs = k,
                           !.uni = IF @ = 0 /\ k > 0 THEN k
                                   ELSE IF @ = k THEN @ ELSE -1]
       IN  pg' = IF EmptyPage(k) THEN [r EXCEPT !.pc = "returned", !.retLen = 0]
                 ELSE IF r.hasCallback THEN [r EXCEPT !.pc = "ingest"]
                 ELSE AfterBatch(r, TRUE)
    /\ PagerOnly

\* A hand-off cut down to what is missing from maxResults.
HandedOffUpToTarget(r) ==
    IF r.pageJobs <= r.maxResults - r.totalCrawled
    THEN r.pageJobs ELSE r.maxResults - r.totalCrawled

\* The records passed in onPageCrawled(pageJobs), line 86: the whole batch
\* extractJobsFromCurrentPage gave.
HandedOff(r) == r.pageJobs

\* onPageCrawled(pageJobs) resolves, lines 86-89.
IngestDone ==
    /\ pg.pc = "ingest"
    /\ pg' = AfterBatch([pg EXCEPT !.cbCalls = @ + 1, !.handed = @ + HandedOff(pg)], TRUE)
    /\ PagerOnly

\* onPageCrawled(pageJobs) rejects: logged, lines 90-97.
IngestFails ==
    /\ pg.pc = "ingest"
    /\ pg' = AfterBatch([pg EXCEPT !.cbCalls = @ + 1, !.handed = @ + HandedOff(pg),
                                   !.cbFailed = TRUE], FALSE)
    /\ PagerOnly

\* pageToLoadMore resolves with true, lines 117-125: waitForTimeout is awaited.
AdvanceDone ==
    /\ pg.pc = "advance"
    /\ pg' = [pg EXCEPT !.pc = "pause"]
    /\ PagerOnly

\* pageToLoadMore without its catch block: the failure of the navigation is
\* thrown out of crawl.
AdvanceFailsThrows ==
    /\ pg.pc = "advance"
    /\ pg' = [pg EXCEPT !.pc = "threw", !.advFailed = TRUE]
    /\ PagerOnly

\* pageToLoadMore resolves with false (its navigation or selector wait threw,
\* lines 389-394): the loop ends, lines 119-122.
AdvanceFails ==
    /\ pg.pc = "advance"
    /\ pg' = [pg EXCEPT !.pc = "returned", !.retLen = 0, !.advFailed = TRUE]
    /\ PagerOnly

\* waitForTimeout resolves, lines 125-127: the next iteration.
PauseDone ==
    /\ pg.pc = "pause"
    /\ pg' = LoopTop([pg EXCEPT !.currentPage = @ + 1])
    /\ PagerOnly

\* waitForTimeout rejects (the page was closed): thrown again, lines 133-138.
PauseFails ==
    /\ pg.pc = "pause"
    /\ pg' = [pg EXCEPT !.pc = "threw"]
    /\ PagerOnly

PagerStep ==
    \/ LoadDone
    \/ LoadFails
    \/ \E k \in 0 .. MaxPageSize : Extracted(k)
    \/ IngestDone
    \/ IngestFails
    \/ AdvanceDone
    \/ AdvanceFails
    \/ PauseDone
    \/ PauseFails

NextPager ==
    \/ \E max \in 0 .. MaxResultsBound, cb \in BOOLEAN : PagerStart(max, cb)
    \/ LoadDone
    \/ LoadFails
    \/ \E k \in 0 .. MaxPageSize : Extracted(k)
    \/ IngestDone
    \/ IngestFails
    \/ AdvanceDone
    \/ AdvanceFails
    \/ PauseDone
    \/ PauseFails

\* ------------------------------------------------------------------------
\* The orchestrator: CrawlerService (src/unnamed/part_002, lines 253-381) on
\* the shared BrowserService (src/src/browser/browser.service.ts)
\* ------------------------------------------------------------------------

\* The strategies the constructor registers, in the order of the Map's keys.
Registered == <<"remoteok", "himalayas", "weworkremotely">>

\* The names callers ask for.
Names == {"remoteok", "himalayas", "nosuch"}

NameLists == UNION {[1 .. n -> Names] : n \in 0 .. MaxNames}

CrawlSlots == {1, 2}

\* getStrategy(name) finds a strategy, lines 300-302.
AnyName(name) == TRUE

IsRegistered(name) == \E i \in DOMAIN Registered : Registered[i] = name

NoError == [kind |-> "none", names |-> <<>>]

\* new Error(`策略 "${strategyName}" 不存在。可用策略: ${names.join(', ')}`)
StrategyNotFound == [kind |-> "StrategyNotFound", names |-> Registered]

Failure(kind) == [kind |-> kind, names |-> <<>>]

\* A crawl call not made.  A call holds its arguments (name, headless) and who
\* made it, the context its page was asked of (ctx), its page, the outcome it
\* will have once the page is closed or has (outcome, err, jobs); and, for
\* the properties, its number (seq, which also names the browser it launches
\* and the page it opens) and the browser it launched.
NoCrawlCall ==
    [pc |-> "idle", seq |-> 0, name |-> "", headless |-> FALSE, caller |-> "none",
     launched |-> 0, ctx |-> 0, page |-> 0, outcome |-> "none", err |-> NoError,
     jobs |-> 0]

\* A call that has returned or thrown: what is kept of it is its name, its
\* caller, the browser it launched, its page and its outcome.
Done(rec) == [rec EXCEPT !.pc = "done", !.seq = 0, !.headless = FALSE, !.ctx = 0]

Thrown(rec, err) == Done([rec EXCEPT !.outcome = "threw", !.err = err])

\* browserService.newPage() up to its await, browser.service.ts lines 79-84:
\* it throws without a context, otherwise context.newPage() is called on the
\* context of the moment.
NewPageBegin(rec, ctx) ==
    IF ctx = 0 THEN Thrown(rec, Failure("ContextNotInitialised"))
    ELSE [rec EXCEPT !.pc = "newPage", !.ctx = ctx]

\* A crawl that refuses to begin while another crawl call is in progress.
BegunExclusively(seq, name, headless, caller, br, ctx) ==
    LET rec == [NoCrawlCall EXCEPT !.seq = seq, !.name = name,
                                   !.headless = headless, !.caller = caller]
    IN  IF ~IsRegistered(name) THEN Thrown(rec, StrategyNotFound)
        ELSE IF \E d \in CrawlSlots : ccalls[d].pc \notin {"idle", "done"}
        THEN Thrown(rec, Failure("CrawlInProgress"))
        ELSE IF br = 0 THEN [rec EXCEPT !.pc = "launch"]
        ELSE NewPageBegin(rec, ctx)

\* crawl(strategyName, options) up to its first await, lines 296-322.
Begun(seq, name, headless, caller, br, ctx) ==
    LET rec == [NoCrawlCall EXCEPT !.seq = seq, !.name = name,
                                   !.headless = headless, !.caller = caller]
    IN  IF ~IsRegistered(name) THEN Thrown(rec, StrategyNotFound)
        ELSE IF br = 0 THEN [rec EXCEPT !.pc = "launch"]
        ELSE NewPageBegin(rec, ctx)

\* crawlMultiple not called, and the locals of a call: strategyNames, the
\* options' headless, the number of names gone through (i), the results Map
\* (its keys in insertion order and the length of each list); and, for the
\* properties, what became of each crawl call it made (log) and how it ended.
NoMulti ==
    [pc |-> "idle", names |-> <<>>, headless |-> FALSE, i |-> 0, keys |-> <<>>,
     lists |-> <<>>, log |-> <<>>, outcome |-> "none"]

\* results.set(name, jobs)
ResultsSet(m, name, n) ==
    IF \E j \in DOMAIN m.keys : m.keys[j] = name
    THEN [m EXCEPT !.lists = [j \in DOMAIN m.lists |->
                                 IF m.keys[j] = name THEN n ELSE m.lists[j]]]
    ELSE [m EXCEPT !.keys = Append(@, name), !.lists = Append(@, n)]

\* crawlMultiple, lines 360-361: the crawl resolved.
MultiAfterSuccess(m, name, n) ==
    [ResultsSet(m, name, n) EXCEPT
        !.log = Append(@, [name |-> name, failed |-> FALSE, jobs |-> n])]

\* crawlMultiple, lines 362-369: the crawl rejected; the error is logged and
\* the name gets an empty list.
MultiRethrows(m, name) ==
    [m EXCEPT !.pc = "done", !.outcome = "threw", !.i = Len(m.names),
              !.log = Append(@, [name |-> name, failed |-> TRUE, jobs |-> 0])]

MultiAfterFailure(m, name) ==
    [ResultsSet(m, name, 0) EXCEPT
        !.log = Append(@, [name |-> name, failed |-> TRUE, jobs |-> 0])]

\* crawlMultiple's for loop, lines 356-372, from the top of an iteration until
\* a crawl call suspends or the names are gone through and results is
\* returned: <<the call, its crawl call, the number of crawl calls made>>.
RECURSIVE MultiLoop(_, _, _, _)
MultiLoop(m, n, br, ctx) ==
    IF m.pc = "done" THEN <<m, NoCrawlCall, n>>
    ELSE IF m.i = Len(m.names)
    THEN <<[m EXCEPT !.pc = "done", !.outcome = "returned"], NoCrawlCall, n>>
    ELSE LET name == m.names[m.i + 1]
             rec == Begun(n + 1, name, m.headless, "multi", br, ctx)
             m1 == [m EXCEPT !.i = @ + 1]
         IN  IF rec.pc = "done"
             THEN MultiLoop(MultiAfterFailure(m1, name), n + 1, br, ctx)
             ELSE <<m1, rec, n + 1>>

InitCrawl ==
    /\ browser = 0
    /\ context = 0
    /\ browsers = {}
    /\ openPages = {}
    /\ ccalls = [c \in CrawlSlots |-> NoCrawlCall]
    /\ multi = NoMulti
    /\ crawls = 0

\* Calls are anonymous: a new call takes the first slot with no call in flight.
FreeSlot(c) ==
    /\ ccalls[c].pc \in {"idle", "done"}
    /\ \A d \in CrawlSlots : d < c => ccalls[d].pc \notin {"idle", "done"}

\* A crawl call made by the trigger-crawl endpoint (CrawlerController.crawl,
\* lines 170-199: headless is true in production only) or by a scheduled
\* round (handleCron, lines 89-104: headless: true).
CrawlStart(c, name, headless, caller) ==
    /\ crawls < MaxCrawls
    /\ FreeSlot(c)
    /\ caller = "sched" => headless
    /\ ccalls' = [ccalls EXCEPT ![c] =
                     Begun(crawls + 1, name, headless, caller, browser, context)]
    /\ crawls' = crawls + 1
    /\ UNCHANGED <<browser, context, browsers, openPages, multi>>
    /\ CrawlOnly

\* crawlMultiple(strategyNames, options) up to its first await.
MultiStart(c, names, headless) ==
    /\ multi.pc = "idle"
    /\ crawls + Len(names) <= MaxCrawls
    /\ FreeSlot(c)
    /\ LET out == MultiLoop([NoMulti EXCEPT !.pc = "run", !.names = names,
                                            !.headless = headless],
                            crawls, browser, context)
       IN  /\ multi' = out[1]
           /\ ccalls' = [ccalls EXCEPT ![c] = IF out[2].pc = "idle" THEN @ ELSE out[2]]
           /\ crawls' = out[3]
    /\ UNCHANGED <<browser, context, browsers, openPages>>
    /\ CrawlOnly

\* The crawl call in slot c returns or throws (rec is the call as it ends):
\* a call made by crawlMultiple resumes its loop.
Settle(c, rec) ==
    IF rec.caller = "multi"
    THEN LET m == IF rec.outcome = "threw"
                  THEN MultiAfterFailure(multi, rec.name)
                  ELSE MultiAfterSuccess(multi, rec.name, rec.jobs)
             out == MultiLoop(m, crawls, browser, context)
         IN  /\ multi' = out[1]
             /\ ccalls' = [ccalls EXCEPT ![c] = IF out[2].pc = "idle" THEN rec ELSE out[2]]
             /\ crawls' = out[3]
    ELSE /\ ccalls' = [ccalls EXCEPT ![c] = rec]
         /\ UNCHANGED <<multi, crawls>>

\* browserLauncher.launch() resolves, browser.service.ts lines 56-62:
\* this.browser is set and newContext() is awaited.
LaunchResolves(c) ==
    /\ ccalls[c].pc = "launch"
    /\ browser' = ccalls[c].seq
    /\ browsers' = browsers \cup {[id |-> ccalls[c].seq, headless |-> ccalls[c].headless]}
    /\ ccalls' = [ccalls EXCEPT ![c].pc = "context", ![c].launched = ccalls[c].seq]
    /\ UNCHANGED <<context, openPages, multi, crawls>>
    /\ CrawlOnly

\* browserLauncher.launch() rejects: launch logs and throws, lines 70-73, and
\* so does crawl.
LaunchFails(c) ==
    /\ ccalls[c].pc = "launch"
    /\ Settle(c, Thrown(ccalls[c], Failure("LaunchFailed")))
    /\ UNCHANGED <<browser, context, browsers, openPages>>
    /\ CrawlOnly

\* newContext() resolves, lines 62-69: this.context is set, launch returns
\* and crawl goes on to newPage(), part_002 line 322.
ContextResolves(c) ==
    /\ ccalls[c].pc = "context"
    /\ context' = ccalls[c].launched
    /\ ccalls' = [ccalls EXCEPT ![c] = NewPageBegin(ccalls[c], context')]
    /\ UNCHANGED <<browser, browsers, openPages, multi, crawls>>
    /\ CrawlOnly

\* newContext() rejects: launch throws with this.browser set.
ContextFails(c) ==
    /\ ccalls[c].pc = "context"
    /\ Settle(c, Thrown(ccalls[c], Failure("ContextFailed")))
    /\ UNCHANGED <<browser, context, browsers, openPages>>
    /\ CrawlOnly

\* context.newPage() resolves: the strategy's crawl is awaited inside the try
\* block, part_002 lines 322-326.
NewPageResolves(c) ==
    /\ ccalls[c].pc = "newPage"
    /\ openPages' = openPages \cup {ccalls[c].seq}
    /\ ccalls' = [ccalls EXCEPT ![c].pc = "strategy", ![c].page = ccalls[c].seq]
    /\ UNCHANGED <<browser, context, browsers, multi, crawls>>
    /\ CrawlOnly

\* context.newPage() rejects: crawl throws before its try block.
NewPageFails(c) ==
    /\ ccalls[c].pc = "newPage"
    /\ Settle(c, Thrown(ccalls[c], Failure("NewPageFailed")))
    /\ UNCHANGED <<browser, context, browsers, openPages>>
    /\ CrawlOnly

\* strategy.crawl resolves with n records, lines 326-332: the finally block
\* awaits closePage.
StrategyReturns(c, n) ==
    /\ ccalls[c].pc = "strategy"
    /\ ccalls' = [ccalls EXCEPT ![c].pc = "closing", ![c].outcome = "returned",
                                ![c].jobs = n]
    /\ UNCHANGED <<browser, context, browsers, openPages, multi, crawls>>
    /\ CrawlOnly

\* strategy.crawl rejects, lines 333-340: logged and thrown again once the
\* finally block has run.
StrategyThrows(c) ==
    /\ ccalls[c].pc = "strategy"
    /\ ccalls' = [ccalls EXCEPT ![c].pc = "closing", ![c].outcome = "threw",
                                ![c].err = Failure("StrategyError")]
    /\ UNCHANGED <<browser, context, browsers, openPages, multi, crawls>>
    /\ CrawlOnly

\* closePage: page.close() resolves, browser.service.ts lines 337-339.
ClosePageResolves(c) ==
    /\ ccalls[c].pc = "closing"
    /\ openPages' = openPages \ {ccalls[c].page}
    /\ Settle(c, Done(ccalls[c]))
    /\ UNCHANGED <<browser, context, browsers>>
    /\ CrawlOnly

\* closePage without its catch block: the rejection of page.close() leaves
\* the finally block of crawl and takes the place of the strategy's outcome.
ClosePageFailsThrows(c) ==
    /\ ccalls[c].pc = "closing"
    /\ \E stays \in BOOLEAN :
          openPages' = IF stays THEN openPages ELSE openPages \ {ccalls[c].page}
    /\ Settle(c, Thrown(ccalls[c], Failure("CloseError")))
    /\ UNCHANGED <<browser, context, browsers>>
    /\ CrawlOnly

\* closePage: page.close() rejects; the error is logged, lines 340-342, and
\* the page is closed or still open.
ClosePageFails(c) ==
    /\ ccalls[c].pc = "closing"
    /\ \E stays \in BOOLEAN :
          openPages' = IF stays THEN openPages ELSE openPages \ {ccalls[c].page}
    /\ Settle(c, Done(ccalls[c]))
    /\ UNCHANGED <<browser, context, browsers>>
    /\ CrawlOnly

\* close(), after its await of closeContext(), browser.service.ts lines
\* 367-375 (br is this.browser at that moment): with a browser it suspends in
\* browser.close(); closeContext() called by itself returns.  A call that
\* closes holds in ctx the context, then the browser, it is closing.
AfterCloseContext(rec, br) ==
    IF rec.caller = "close" /\ br # 0
    THEN [rec EXCEPT !.pc = "brClosing", !.ctx = br]
    ELSE Done([rec EXCEPT !.outcome = "returned"])

\* closeContext(), lines 349-352, called by itself or by close() (line 365):
\* with a context it suspends in context.close().
CloseBegun(rec, br, ctx) ==
    IF ctx # 0 THEN [rec EXCEPT !.pc = "ctxClosing", !.ctx = ctx]
    ELSE AfterCloseContext(rec, br)

\* close() (kind = "close": onModuleDestroy, line 396) or closeContext() is
\* called; the calls made on the service are counted together.
CloseStart(c, kind) ==
    /\ crawls < MaxCrawls
    /\ FreeSlot(c)
    /\ ccalls' = [ccalls EXCEPT ![c] =
                     CloseBegun([NoCrawlCall EXCEPT !.seq = crawls + 1, !.caller = kind],
                                browser, context)]
    /\ crawls' = crawls + 1
    /\ UNCHANGED <<browser, context, browsers, openPages, multi>>
    /\ CrawlOnly

\* context.close() resolves, lines 352-354: this.context = null, whichever
\* context the field holds by now; the pages of the closed context are closed
\* with it.
ContextCloseResolves(c) ==
    /\ ccalls[c].pc = "ctxClosing"
    /\ context' = 0
    /\ openPages' = openPages \ {ccalls[d].page : d \in {e \in CrawlSlots :
                                      ccalls[e].ctx = ccalls[c].ctx /\ e # c}}
    /\ ccalls' = [ccalls EXCEPT ![c] = AfterCloseContext(ccalls[c], browser)]
    /\ UNCHANGED <<browser, browsers, multi, crawls>>
    /\ CrawlOnly

\* context.close() rejects, lines 355-357: logged; this.context stays.
ContextCloseFails(c) ==
    /\ ccalls[c].pc = "ctxClosing"
    /\ ccalls' = [ccalls EXCEPT ![c] = AfterCloseContext(ccalls[c], browser)]
    /\ UNCHANGED <<browser, context, browsers, openPages, multi, crawls>>
    /\ CrawlOnly

\* browser.close() resolves, lines 369-371: this.browser = null.
BrowserCloseResolves(c) ==
    /\ ccalls[c].pc = "brClosing"
    /\ browser' = 0
    /\ browsers' = {b \in browsers : b.id # ccalls[c].ctx}
    /\ ccalls' = [ccalls EXCEPT ![c] = Done([ccalls[c] EXCEPT !.outcome = "returned"])]
    /\ UNCHANGED <<context, openPages, multi, crawls>>
    /\ CrawlOnly

\* browser.close() rejects, lines 372-374: logged; this.browser stays.
BrowserCloseFails(c) ==
    /\ ccalls[c].pc = "brClosing"
    /\ ccalls' = [ccalls EXCEPT ![c] = Done([ccalls[c] EXCEPT !.outcome = "returned"])]
    /\ UNCHANGED <<browser, context, browsers, openPages, multi, crawls>>
    /\ CrawlOnly

NextCrawl ==
    \/ \E c \in CrawlSlots, name \in Names, h \in BOOLEAN, caller \in {"manual", "sched"} :
          CrawlStart(c, name, h, caller)
    \/ \E c \in CrawlSlots : LaunchResolves(c)
    \/ \E c \in CrawlSlots : LaunchFails(c)
    \/ \E c \in CrawlSlots : ContextResolves(c)
    \/ \E c \in CrawlSlots : ContextFails(c)
    \/ \E c \in CrawlSlots : NewPageResolves(c)
    \/ \E c \in CrawlSlots : NewPageFails(c)
    \/ \E c \in CrawlSlots, n \in 0 .. MaxJobs : StrategyReturns(c, n)
    \/ \E c \in CrawlSlots : StrategyThrows(c)
    \/ \E c \in CrawlSlots : ClosePageResolves(c)
    \/ \E c \in CrawlSlots : ClosePageFails(c)

\* crawlMultiple and the crawl calls it makes.
NextMulti ==
    \/ \E c \in CrawlSlots, names \in NameLists, h \in BOOLEAN : MultiStart(c, names, h)
    \/ \E c \in CrawlSlots : LaunchResolves(c)
    \/ \E c \in CrawlSlots : LaunchFails(c)
    \/ \E c \in CrawlSlots : ContextResolves(c)
    \/ \E c \in CrawlSlots : ContextFails(c)
    \/ \E c \in CrawlSlots : NewPageResolves(c)
    \/ \E c \in CrawlSlots : NewPageFails(c)
    \/ \E c \in CrawlSlots, n \in 0 .. MaxJobs : StrategyReturns(c, n)
    \/ \E c \in CrawlSlots : StrategyThrows(c)
    \/ \E c \in CrawlSlots : ClosePageResolves(c)
    \/ \E c \in CrawlSlots : ClosePageFails(c)

\* crawl calls together with close() and closeContext() on the one service.
NextBrowser ==
    \/ \E c \in CrawlSlots, name \in Names, h \in BOOLEAN, caller \in {"manual", "sched"} :
          CrawlStart(c, name, h, caller)
    \/ \E c \in CrawlSlots : LaunchResolves(c)
    \/ \E c \in CrawlSlots : LaunchFails(c)
    \/ \E c \in CrawlSlots : ContextResolves(c)
    \/ \E c \in CrawlSlots : ContextFails(c)
    \/ \E c \in CrawlSlots : NewPageResolves(c)
    \/ \E c \in CrawlSlots : NewPageFails(c)
    \/ \E c \in CrawlSlots, n \in 0 .. MaxJobs : StrategyReturns(c, n)
    \/ \E c \in CrawlSlots : StrategyThrows(c)
    \/ \E c \in CrawlSlots : ClosePageResolves(c)
    \/ \E c \in CrawlSlots : ClosePageFails(c)
    \/ \E c \in CrawlSlots, kind \in {"close", "closeContext"} : CloseStart(c, kind)
    \/ \E c \in CrawlSlots : ContextCloseResolves(c)
    \/ \E c \in CrawlSlots : ContextCloseFails(c)
    \/ \E c \in CrawlSlots : BrowserCloseResolves(c)
    \/ \E c \in CrawlSlots : BrowserCloseFails(c)

Init == InitPool /\ InitSched /\ InitJobs /\ InitPager /\ InitCrawl /\ InitTime

SpecPool == Init /\ [][NextPool]_vars

SpecSched == Init /\ [][NextSched]_vars

SpecJobs == Init /\ [][NextJobs]_vars

SpecPager == Init /\ [][NextPager]_vars

SpecCrawl == Init /\ [][NextCrawl]_vars

SpecMulti == Init /\ [][NextMulti]_vars

SpecTime == Init /\ [][NextTime]_vars

SpecBrowser == Init /\ [][NextBrowser]_vars

\* Every page operation the driver awaits has a timeout, and the callback's
\* store calls resolve or reject: a suspended crawl is resumed in the end.
SpecPagerFair == SpecPager /\ WF_vars(PagerStep)

\* A crawl call resolves or rejects in the end: every page operation has a
\* timeout.
SpecSchedFair == SpecSched /\ WF_vars(RoundStep)
\* ------------------------------------------------------------------------
\* Properties of the scheduled runner
\* ------------------------------------------------------------------------

RoundsInProgress == {s \in RoundSlots : InRound(s)}

\* C2: at most one collection round is executing at a time, and the flag is
\* set for as long as it executes.
AtMostOneRound ==
    /\ Cardinality(RoundsInProgress) <= 1
    /\ RoundsInProgress # {} => isRunning

\* A second trigger has fired during a round, and one round is executing.
SecondTriggerDuringRound ==
    /\ Cardinality(RoundsInProgress) = 1
    /\ isRunning
    /\ triggers >= 2
    /\ started = 1

\* C3: whenever no handleCron invocation is in progress the flag is clear, and
\* a flag that is set is cleared in the end, however the round ends.
FlagClearedAfterRound ==
    /\ [](RoundsInProgress = {} => ~isRunning)
    /\ (isRunning ~> ~isRunning)

\* A round has ended by a throw outside the per-strategy try block, and the
\* flag is clear.
FlagClearAfterThrow ==
    /\ lastEnd = "threw"
    /\ RoundsInProgress = {}
    /\ ~isRunning

\* C4: a trigger that fires while the flag is set changes nothing: the flag
\* stays set, the running round (its crawl calls, its sink calls, its
\* counters) is as it was and no round starts; and a round only ever starts in
\* the step of a trigger that found the flag clear, so a skipped trigger is
\* not run later.
SkippedTriggerIsNoOp ==
    [][/\ (triggers' # triggers /\ isRunning)
          => (isRunning' /\ rounds' = rounds /\ started' = started
              /\ lastEnd' = lastEnd)
       /\ (started' # started) => (triggers' # triggers /\ ~isRunning)]_vars

\* A trigger was skipped during the only round so far, that round has ended,
\* and nothing runs.
SkippedTriggerNotRerun ==
    /\ triggers = 2
    /\ started = 1
    /\ RoundsInProgress = {}
    /\ ~isRunning

\* C16: a round attempts the configured strategies one at a time and in the
\* configured order, each once; a crawl that fails does not end the round
\* before the last strategy, and a round that ends through its loop has
\* attempted every configured strategy.
EveryStrategyAttempted ==
    /\ [](\A s \in RoundsInProgress :
            /\ rounds[s].i \in 1 .. Len(Strategies)
            /\ rounds[s].attempted = SubSeq(Strategies, 1, rounds[s].i))
    /\ [][\A s \in RoundSlots :
            /\ (InRound(s) /\ ~InRound(s)' /\ lastEnd' # "threw")
               => rounds[s].attempted = Strategies
            /\ (InRound(s) /\ InRound(s)' /\ rounds'[s].failed > rounds[s].failed)
               => rounds'[s].attempted = Append(rounds[s].attempted,
                                                Strategies[rounds[s].i + 1])]_vars

\* The first strategy's crawl has failed and the round is crawling the last
\* one.
SecondStrategyAfterFailure ==
    \E s \in RoundsInProgress :
        /\ rounds[s].failed = 1
        /\ rounds[s].i = Len(Strategies)
        /\ rounds[s].attempted = Strategies

\* C34: in a scheduled round every record a strategy extracts is handed to
\* the ingestion sink, by the per-strategy callback or from the list the
\* strategy returned: no round has let a returned record go.
ScheduledRecordsReachSink ==
    \A s \in RoundSlots : rounds[s].discarded = 0

\* ------------------------------------------------------------------------
\* Properties of the ingestion sink
\* ------------------------------------------------------------------------

\* The (url, source) pairs submitted.
Pairs == {[url |-> r.url, source |-> r.source] : r \in Records}

\* The records of pair p that call c has handled, by what became of them.
Handled(c, p, kinds) ==
    {i \in DOMAIN jcalls[c].outcomes :
        SameKey(jcalls[c].batch[i], p) /\ jcalls[c].outcomes[i] \in kinds}

RECURSIVE SumOver(_, _, _, _)
SumOver(cs, p, kinds, acc) ==
    IF cs = {} THEN acc
    ELSE LET c == CHOOSE x \in cs : TRUE
         IN  SumOver(cs \ {c}, p, kinds, acc + Cardinality(Handled(c, p, kinds)))

HandledCount(p, kinds) == SumOver(JobCalls, p, kinds, 0)

RowsOf(p) == Cardinality({i \in DOMAIN store : SameKey(store[i], p)})

\* C5: of all the submissions of one (url, source) pair handled so far, in one
\* batch or in several, exactly one was saved and every other one was counted
\* as skipped; the store holds exactly one job for the pair; and within a
\* batch every submission of the pair after the first is a skip.
DuplicateSavedOnce ==
    /\ \A p \in Pairs :
          HandledCount(p, {"saved", "found", "conflict"}) >= 1
          => /\ HandledCount(p, {"saved"}) = 1
             /\ HandledCount(p, {"found", "conflict"})
                   = HandledCount(p, {"saved", "found", "conflict"}) - 1
             /\ RowsOf(p) = 1
    /\ \A c \in JobCalls : \A i, j \in DOMAIN jcalls[c].outcomes :
          (i < j /\ SameKey(jcalls[c].batch[i], jcalls[c].batch[j]))
          => jcalls[c].outcomes[j] = "found"
    /\ \A c \in JobCalls :
          /\ Len(jcalls[c].saved)
                = Cardinality({i \in DOMAIN jcalls[c].outcomes :
                                  jcalls[c].outcomes[i] = "saved"})
          /\ jcalls[c].skipped
                = Cardinality({i \in DOMAIN jcalls[c].outcomes :
                                  jcalls[c].outcomes[i] # "saved"})

\* One pair was submitted twice in one batch and once more in a later batch:
\* the first call has returned with one saved and one skipped, the second
\* with nothing saved and one skipped.
SamePairTwiceAndAgain ==
    /\ jcalls[1].pc = "returned"
    /\ jcalls[2].pc = "returned"
    /\ Len(jcalls[1].batch) = 2
    /\ SameKey(jcalls[1].batch[1], jcalls[1].batch[2])
    /\ jcalls[1].outcomes = <<"saved", "found">>
    /\ Len(jcalls[1].saved) = 1 /\ jcalls[1].skipped = 1
    /\ Len(jcalls[2].batch) = 1
    /\ SameKey(jcalls[2].batch[1], jcalls[1].batch[1])
    /\ jcalls[2].saved = <<>> /\ jcalls[2].skipped = 1

\* C6: the store never holds two jobs for one (url, source) pair; a call whose
\* insert hits the unique violation has counted the record as skipped and has
\* not thrown that error.
ConcurrentDuplicateIsSkip ==
    /\ \A p \in Pairs : RowsOf(p) <= 1
    /\ \A c \in JobCalls :
          /\ ~(jcalls[c].pc = "threw" /\ jcalls[c].err = UniqueViolationMessage)
          /\ jcalls[c].skipped
                = Cardinality({i \in DOMAIN jcalls[c].outcomes :
                                  jcalls[c].outcomes[i] \in {"found", "conflict"}})

\* Two calls passed the existence check for the same pair before either
\* inserted; one insert hit the unique violation, and that call went on to
\* the next record of its batch.
LostRaceAndWentOn ==
    \E c, d \in JobCalls :
       /\ c # d
       /\ Len(jcalls[c].outcomes) = 2
       /\ jcalls[c].outcomes[1] = "conflict"
       /\ jcalls[c].skipped >= 1
       /\ jcalls[d].outcomes # <<>>
       /\ \E i \in DOMAIN jcalls[d].outcomes :
             /\ jcalls[d].outcomes[i] = "saved"
             /\ SameKey(jcalls[d].batch[i], jcalls[c].batch[1])
       /\ RowsOf(jcalls[c].batch[1]) = 1

\* C31: a step of a call whose record in hand has its (url, source) pair in
\* the store already, at the lookup or at the insert, leaves every stored job
\* as it was and adds no row; unless the store itself failed in that step, the
\* call counts the record as skipped, saves nothing and goes on to the next
\* record, and it never throws the uniqueness violation.
ExistingPairLeftUnchanged ==
    [][\A c \in JobCalls :
          LET rec == jcalls[c]
              r == rec.batch[rec.idx]
              exists == \E i \in DOMAIN store :
                           store[i].url = r.url /\ store[i].source = r.source
          IN  (/\ rec.pc \in {"find", "save"}
               /\ exists
               /\ jcalls'[c] # rec)
              => /\ store' = store
                 /\ \/ jcalls'[c] = [rec EXCEPT !.pc = "threw",
                                                !.err = OtherFailureMessage]
                    \/ /\ jcalls'[c].pc \in {"find", "returned"}
                       /\ jcalls'[c].skipped = rec.skipped + 1
                       /\ jcalls'[c].saved = rec.saved
                       /\ jcalls'[c].err = ""]_vars

\* A job is stored under one title; a later call submitted the same pair
\* under another title and has returned with one skip and nothing saved,
\* and the store holds the one job under its first title.
SkippedRecordDiffersFromStored ==
    \E c \in JobCalls :
        /\ jcalls[c].pc = "returned"
        /\ jcalls[c].outcomes = <<"found">>
        /\ jcalls[c].saved = <<>> /\ jcalls[c].skipped = 1
        /\ Len(store) = 1
        /\ SameKey(store[1], jcalls[c].batch[1])
        /\ store[1].title # jcalls[c].batch[1].title

\* C38: a call that has returned has handled every record of its batch once:
\* saved and skipped add up to the number of records submitted, skipped is
\* the number of records not saved, saved is the batch's saved records in
\* the order of submission, and each of them is a job in the store.
CountsAddUpOnReturn ==
    \A c \in JobCalls :
        jcalls[c].pc = "returned"
        => LET rec == jcalls[c]
               n == Len(rec.batch)
               savedUpTo[i \in 0 .. n] ==
                   IF i = 0 THEN <<>>
                   ELSE IF rec.outcomes[i] = "saved"
                        THEN Append(savedUpTo[i - 1], rec.batch[i])
                        ELSE savedUpTo[i - 1]
           IN  /\ Len(rec.saved) + rec.skipped = n
               /\ Len(rec.outcomes) = n
               /\ rec.saved = savedUpTo[n]
               /\ rec.skipped = Cardinality({i \in 1 .. n :
                                                rec.outcomes[i] # "saved"})
               /\ \A i \in DOMAIN rec.saved :
                     \E j \in DOMAIN store : store[j] = rec.saved[i]

\* A call has returned from a batch of two whose first insert lost the race
\* to another call and whose second record was saved: one skipped, one saved.
ReturnedAfterLostRaceAndSave ==
    \E c \in JobCalls :
        /\ jcalls[c].pc = "returned"
        /\ jcalls[c].outcomes = <<"conflict", "saved">>
        /\ jcalls[c].skipped = 1
        /\ jcalls[c].saved = <<jcalls[c].batch[2]>>

\* C29: a findOne or save that rejects with an error that is no uniqueness
\* violation ends the call in that step by a throw of that error, with the
\* store and the call's position in the batch as they were; a call that has
\* thrown looks up and saves nothing more and never returns counts.
StoreFailurePropagates ==
    /\ [][\A c \in JobCalls :
             (/\ jcalls[c].pc \in {"find", "save"}
              /\ jcalls'[c] # jcalls[c]
              /\ jcalls'[c].outcomes = jcalls[c].outcomes
              /\ ~(jcalls[c].pc = "find" /\ jcalls'[c].pc = "save"))
             => /\ jcalls'[c] = [jcalls[c] EXCEPT !.pc = "threw",
                                                  !.err = OtherFailureMessage]
                /\ store' = store]_vars
    /\ [][\A c \in JobCalls :
             jcalls[c].pc = "threw" => jcalls'[c] = jcalls[c]]_vars

\* A call has thrown on the first record of a batch of two, with nothing
\* saved or skipped by it.
StoppedBatchAfterStoreFailure ==
    \E c \in JobCalls :
        /\ jcalls[c].pc = "threw"
        /\ jcalls[c].err = OtherFailureMessage
        /\ Len(jcalls[c].batch) = 2
        /\ jcalls[c].idx = 1
        /\ jcalls[c].outcomes = <<>>

\* The text is a string of digits followed by the unit.
IsAmountAndUnit(s, u) ==
    /\ Len(s) > Len(u)
    /\ SubSeq(s, Len(s) - Len(u) + 1, Len(s)) = u
    /\ \A i \in 1 .. (Len(s) - Len(u)) : IsIn(DigitChars, s[i])

\* C27: for a postedAt text that, trimmed and lower-cased, is the decimal form
\* of an integer n >= 0 followed by h, d, w, mo or y, parseRelativeTime gives
\* the instant of the call minus n hours, n days, 7n days, 30n days or 365n
\* days; for 'now' and 'just now' in any letter case it gives the instant of
\* the call.
NormalisesRelativeTime ==
    (rt.pc # "idle" /\ rt.postedAt.given)
    => LET s == ToLowerCase(Trim(rt.postedAt.text))
           RECURSIVE Decimal(_)
           Decimal(n) ==
               IF n < 10 THEN <<DigitChars[n + 1]>>
               ELSE Append(Decimal(n \div 10), DigitChars[(n % 10) + 1])
           back == rt.at.days - rt.parsed.days
       IN  /\ s \in JustNow => rt.parsed = Date(rt.at.days, rt.at.hours)
           /\ \A u \in DOMAIN UnitFactors :
                 (IsAmountAndUnit(s, u) /\ (Len(s) - Len(u) = 1 \/ s[1] # "0"))
                 => /\ rt.parsed.kind = "date"
                    /\ IF UnitFactors[u].days > 0
                       THEN /\ rt.parsed.hours = rt.at.hours
                            /\ back >= 0
                            /\ back % UnitFactors[u].days = 0
                            /\ Decimal(back \div UnitFactors[u].days)
                                  = SubSeq(s, 1, Len(s) - Len(u))
                       ELSE /\ back >= 0
                            /\ Decimal((back * 24) + rt.at.hours - rt.parsed.hours)
                                  = SubSeq(s, 1, Len(s) - Len(u))

\* C28: for a postedAt that is absent or is, trimmed and lower-cased, neither
\* 'now' or 'just now' nor digits followed by h, d, w, mo or y,
\* parseRelativeTime gives undefined without throwing, and the row that create
\* saves has no postedAt.
OtherTextYieldsAbsent ==
    (/\ rt.pc # "idle"
     /\ \/ ~rt.postedAt.given
        \/ LET s == ToLowerCase(Trim(rt.postedAt.text))
           IN  /\ s \notin JustNow
               /\ \A u \in DOMAIN UnitFactors : ~IsAmountAndUnit(s, u))
    => /\ rt.parsed = Undefined
       /\ rt.pc \in {"saving", "saved", "threw"}
       /\ rt.pc = "saved" => rt.row = Undefined

\* ------------------------------------------------------------------------
\* Properties of the pagination driver
\* ------------------------------------------------------------------------

CeilDiv(m, k) == (m + k - 1) \div k

\* C7: no extraction is performed once totalCrawled >= maxResults; and a crawl
\* with a callback that has returned from a site whose pages all had k > 0
\* records and whose advances all succeeded has made ceil(maxResults / k)
\* extractions and as many callback calls.
ExtractionsBounded ==
    /\ pg.pc = "extract" => pg.totalCrawled < pg.maxResults
    /\ (pg.pc = "returned" /\ pg.uni > 0 /\ ~pg.advFailed)
       => /\ pg.extractions = CeilDiv(pg.maxResults, pg.uni)
          /\ pg.hasCallback => pg.cbCalls = pg.extractions

\* maxResults = 25 and ten records on every page: 3 extractions, 3 callback
\* calls, 30 records.
ThreePagesOfTen ==
    /\ pg.pc = "returned"
    /\ pg.hasCallback
    /\ pg.maxResults = 25
    /\ pg.uni = 10
    /\ ~pg.advFailed
    /\ pg.extractions = 3
    /\ pg.cbCalls = 3
    /\ pg.totalCrawled = 30

PagerDone == pg.pc \in {"returned", "threw"}

\* C8: the loop terminates: each iteration that went on to another one has
\* added at least one record to totalCrawled, which stays below maxResults
\* while the loop runs, and a crawl that was called returns or throws in the
\* end.
PagerTerminates ==
    /\ [](pg.pc \in {"extract", "ingest", "advance", "pause"}
            => /\ pg.totalCrawled < pg.maxResults
               /\ pg.pc # "ingest" => pg.extractions <= pg.totalCrawled
               /\ pg.pc = "ingest" => pg.extractions - 1 <= pg.totalCrawled)
    /\ (pg.pc # "idle") ~> PagerDone

\* A crawl whose callback failed on a page and whose later advance failed has
\* returned.
ReturnedAfterFailures ==
    /\ pg.pc = "returned"
    /\ pg.cbFailed
    /\ pg.advFailed
    /\ pg.extractions = 2
    /\ pg.uni = -1

\* C18: whether the ingestion callback resolves or throws, the step that
\* follows it adds the size of the batch to totalCrawled and goes on to the
\* maxResults check and, below the target, to the advance.
CallbackFailureGoesOn ==
    [][pg.pc = "ingest"
         => /\ pg'.totalCrawled = pg.totalCrawled + pg.pageJobs
            /\ pg'.cbCalls = pg.cbCalls + 1
            /\ pg'.pc = IF pg'.totalCrawled >= pg.maxResults
                        THEN "returned" ELSE "advance"]_vars

\* The callback threw on the first page and the driver is advancing.
AdvancingAfterCallbackFailure ==
    /\ pg.pc = "advance"
    /\ pg.cbFailed
    /\ pg.extractions = 1
    /\ pg.totalCrawled = pg.pageJobs
    /\ pg.totalCrawled > 0

Min(a, b) == IF a <= b THEN a ELSE b

\* C19: a crawl with a callback returns an empty list; a crawl without one
\* returns the records it extracted, capped at maxResults.
ReturnsAccumulatedWithoutCallback ==
    pg.pc = "returned"
    => pg.retLen = IF pg.hasCallback THEN 0 ELSE Min(pg.totalCrawled, pg.maxResults)

\* C20: an extraction that yields no record ends the crawl in the same step:
\* no callback call, no change of totalCrawled, no advance.
EmptyPageStops ==
    [][(pg.pc = "extract" /\ pg'.extractions = pg.extractions + 1 /\ pg'.pageJobs = 0)
         => /\ pg'.pc = "returned"
            /\ pg'.cbCalls = pg.cbCalls
            /\ pg'.handed = pg.handed
            /\ pg'.totalCrawled = pg.totalCrawled
            /\ pg'.currentPage = pg.currentPage
            /\ ~pg'.advFailed]_vars

\* The second page was empty: the crawl has returned after one callback call.
StoppedOnEmptySecondPage ==
    /\ pg.pc = "returned"
    /\ pg.hasCallback
    /\ pg.pageJobs = 0
    /\ pg.extractions = 2
    /\ pg.cbCalls = 1
    /\ pg.currentPage = 2
    /\ pg.totalCrawled > 0

\* C39: with a callback, every batch extracted is passed to it whole, once,
\* before the next extraction: a non-empty extraction is followed by the
\* callback call, which hands off exactly the batch in hand; the callback
\* calls made are the non-empty extractions made; the records handed off are
\* totalCrawled; and when the crawl ends after some extraction, totalCrawled
\* is less than maxResults plus the size of the last batch.
CallbackReceivesEveryRecord ==
    /\ [](pg.hasCallback
            => /\ pg.handed = pg.totalCrawled
               /\ pg.cbCalls + (IF pg.pc = "ingest" THEN 1 ELSE 0)
                             + (IF pg.extractions >= 1 /\ pg.pageJobs = 0 THEN 1 ELSE 0)
                     = pg.extractions
               /\ (pg.pc \in {"returned", "threw"} /\ pg.extractions >= 1)
                     => pg.totalCrawled < pg.maxResults + pg.pageJobs)
    /\ [][pg.hasCallback
            => /\ (pg'.extractions # pg.extractions /\ pg'.pageJobs > 0)
                     => pg'.pc = "ingest" /\ pg'.handed = pg.handed
               /\ pg.pc = "ingest"
                     => /\ pg'.handed = pg.handed + pg.pageJobs
                        /\ pg'.cbCalls = pg.cbCalls + 1
                        /\ pg'.pc # "extract"
               /\ pg.pc # "ingest" => pg'.handed = pg.handed]_vars

\* A crawl with a callback has returned after two pages of ten with
\* maxResults 15: all twenty records were handed off, five more than asked.
HandedOffBeyondTarget ==
    /\ pg.pc = "returned"
    /\ pg.hasCallback
    /\ pg.maxResults = 15
    /\ pg.extractions = 2 /\ pg.cbCalls = 2
    /\ pg.pageJobs = 10
    /\ pg.handed = 20 /\ pg.totalCrawled = 20

\* C21: when the advance to the next page fails, the crawl returns in that
\* step instead of throwing, and no extraction and no ingestion call follows:
\* the counts of both stay as they were from then on.
AdvanceFailureEndsCrawl ==
    /\ [](pg.advFailed => pg.pc = "returned")
    /\ [][(pg.pc = "advance" /\ pg'.advFailed)
            => /\ pg'.pc = "returned"
               /\ pg'.extractions = pg.extractions
               /\ pg'.cbCalls = pg.cbCalls
               /\ pg'.handed = pg.handed
               /\ pg'.totalCrawled = pg.totalCrawled]_vars
    /\ [][pg.advFailed => pg' = pg]_vars

\* The advance failed after the first page, below the target: the crawl has
\* returned with one extraction and one callback call made.
ReturnedAfterFailedAdvance ==
    /\ pg.pc = "returned"
    /\ pg.advFailed
    /\ pg.hasCallback
    /\ ~pg.cbFailed
    /\ pg.extractions = 1
    /\ pg.cbCalls = 1
    /\ pg.totalCrawled < pg.maxResults

\* ------------------------------------------------------------------------
\* Properties of the orchestrator
\* ------------------------------------------------------------------------

\* The crawl calls that hold an open page: between newPage() and the end of
\* closePage.
HoldsPage(c) == ccalls[c].pc \in {"strategy", "closing"}

\* C13: every page that is open belongs to a crawl call still in flight (a
\* call that has returned or thrown has closed its page), and no step of a
\* crawl call closes a browser or forgets the shared one.
CrawlClosesItsPage ==
    /\ [](\A p \in openPages : \E c \in CrawlSlots : HoldsPage(c) /\ ccalls[c].page = p)
    /\ [][browsers \subseteq browsers' /\ (browser # 0 => browser' # 0)]_vars

RegisteredNames == {Registered[i] : i \in DOMAIN Registered}

\* C14: a crawl call for a name that is not registered is never suspended: it
\* has thrown the error that lists the registered names, it has launched no
\* browser and opened no page, and the step that makes the call leaves the
\* browser, the context, the browsers and the pages as they were.
UnknownStrategyFailsFirst ==
    /\ [](\A c \in CrawlSlots :
            (ccalls[c].pc # "idle" /\ ccalls[c].name \notin RegisteredNames)
            => /\ ccalls[c].pc = "done"
               /\ ccalls[c].outcome = "threw"
               /\ ccalls[c].err = [kind |-> "StrategyNotFound", names |-> Registered]
               /\ ccalls[c].launched = 0
               /\ ccalls[c].page = 0)
    /\ [][(\E c \in CrawlSlots :
             /\ ccalls'[c] # ccalls[c]
             /\ ccalls'[c].name \notin RegisteredNames)
          => UNCHANGED <<browser, context, browsers, openPages>>]_vars

\* A call for an unregistered name has thrown while a browser is launched and
\* another call's strategy is running in its page.
UnknownNameDuringCrawl ==
    \E c, d \in CrawlSlots :
        /\ ccalls[c].pc = "done"
        /\ ccalls[c].name = "nosuch"
        /\ ccalls[c].err.kind = "StrategyNotFound"
        /\ ccalls[d].pc = "strategy"
        /\ browser # 0
        /\ openPages # {}

\* The last crawl call crawlMultiple made for the name.
LastFor(name) ==
    multi.log[CHOOSE i \in DOMAIN multi.log :
                 /\ multi.log[i].name = name
                 /\ \A j \in DOMAIN multi.log : multi.log[j].name = name => j <= i]

\* C15: crawlMultiple does not throw: it returns once it has made one crawl
\* call per requested name, in order; results has a key for every requested
\* name and no other, a name whose crawl failed has the empty list, and the
\* others the list their crawl returned.
MultiAlwaysReturns ==
    multi.pc = "done"
    => /\ multi.outcome = "returned"
       /\ Len(multi.log) = Len(multi.names)
       /\ \A i \in DOMAIN multi.log :
             /\ multi.log[i].name = multi.names[i]
             /\ multi.log[i].failed => multi.log[i].jobs = 0
       /\ {multi.keys[j] : j \in DOMAIN multi.keys}
             = {multi.names[i] : i \in DOMAIN multi.names}
       /\ Len(multi.lists) = Len(multi.keys)
       /\ \A j \in DOMAIN multi.keys : multi.lists[j] = LastFor(multi.keys[j]).jobs

\* The crawl of the first name failed and the second name's crawl returned a
\* record.
MultiWentOnAfterFailure ==
    /\ multi.pc = "done"
    /\ Len(multi.log) = 2
    /\ multi.log[1].failed
    /\ multi.log[1].name # multi.log[2].name
    /\ ~multi.log[2].failed
    /\ multi.log[2].jobs = 1
    /\ multi.lists = <<0, 1>>

\* C17: while a strategy called by a scheduled round runs, the browser its
\* page belongs to was launched headless.
ScheduledRunsHeadless ==
    \A c \in CrawlSlots :
        (ccalls[c].caller = "sched" /\ ccalls[c].pc = "strategy")
        => \A b \in browsers : b.id = ccalls[c].ctx => b.headless

\* C30: a crawl call whose strategy has thrown goes to the closing of its
\* page and then throws the strategy's error: it never ends as returned and
\* holds no records; and the closing of the page, whether page.close()
\* resolves or rejects, ends the call with the outcome, the error and the
\* records the strategy left.
StrategyErrorRethrown ==
    /\ [][\A c \in CrawlSlots :
             ccalls[c].pc = "strategy" => ccalls'[c].pc \in {"strategy", "closing"}]_vars
    /\ [](\A c \in CrawlSlots :
             (ccalls[c].pc \in {"closing", "done"}
              /\ ccalls[c].err = Failure("StrategyError"))
             => (ccalls[c].outcome = "threw" /\ ccalls[c].jobs = 0))
    /\ [][\A c \in CrawlSlots :
             (ccalls[c].pc = "closing" /\ ccalls'[c] # ccalls[c])
             => /\ ccalls'[c].pc = "done"
                /\ ccalls'[c].outcome = ccalls[c].outcome
                /\ ccalls'[c].err = ccalls[c].err
                /\ ccalls'[c].jobs = ccalls[c].jobs]_vars

\* A crawl call has thrown its strategy's error, and the close of its page
\* had failed: the page is still open.
RethrownAfterFailedClose ==
    \E c \in CrawlSlots :
        /\ ccalls[c].pc = "done"
        /\ ccalls[c].outcome = "threw"
        /\ ccalls[c].err = Failure("StrategyError")
        /\ ccalls[c].page \in openPages

\* C32: a crawl asked for by the trigger-crawl endpoint while a scheduled
\* round's crawl is running its strategy on a page of the shared context is
\* not held back: for a registered name it goes straight on to open its own
\* page in that same context, launching nothing.
ManualCrawlJoinsScheduledRound ==
    [][\A c, d \in CrawlSlots :
          (/\ crawls' = crawls + 1
           /\ ccalls'[c] # ccalls[c]
           /\ ccalls'[c].caller = "manual"
           /\ \E i \in DOMAIN Registered : Registered[i] = ccalls'[c].name
           /\ ccalls[d].caller = "sched"
           /\ ccalls[d].pc = "strategy"
           /\ ccalls[d].ctx = context)
          => /\ ccalls'[c].pc = "newPage"
             /\ ccalls'[c].ctx = ccalls[d].ctx
             /\ ccalls'[c].launched = 0
             /\ ccalls'[d] = ccalls[d]
             /\ UNCHANGED <<browser, context, browsers>>]_vars

\* The second of two crawl calls was made by the endpoint while the first,
\* made by a scheduled round, was in progress; both are running their
\* strategy, each on its own page, in the context of the one browser.
ManualAndScheduledOnOneBrowser ==
    \E c, d \in CrawlSlots :
        /\ crawls = 2
        /\ ccalls[d].caller = "sched" /\ ccalls[d].pc = "strategy"
        /\ ccalls[c].caller = "manual" /\ ccalls[c].pc = "strategy"
        /\ ccalls[d].launched = browser /\ browser # 0
        /\ ccalls[c].launched = 0
        /\ ccalls[c].ctx = context /\ ccalls[d].ctx = context
        /\ ccalls[c].page # ccalls[d].page
        /\ {ccalls[c].page, ccalls[d].page} \subseteq openPages
        /\ Cardinality(browsers) = 1

\* C33: while no browser is closed, crawl calls launch at most one browser
\* between them, and every browser launched is the one the service refers to.
AtMostOneBrowserLaunched ==
    /\ Cardinality(browsers) <= 1
    /\ \A b \in browsers : b.id = browser

\* C40: when no launch, close or closeContext call is in progress and the
\* service records a browser, it holds a context too.
ContextAvailableWhenLaunched ==
    (/\ browser # 0
     /\ \A c \in CrawlSlots :
           ccalls[c].pc \notin {"launch", "context", "ctxClosing", "brClosing"})
    => context # 0

====
